---- MODULE Spec2Model ----
(***************************************************************************)
(* Model of check-cloud-drives: the card list of MainWindow (window.py),   *)
(* the drag-and-drop handlers and the edit mode of DriveCard (card.py),    *)
(* SetupDialog (dialogs.py), the fetch worker RcloneWorker (rclone.py) and *)
(* the configuration file of ConfigManager (config.py).                    *)
(*                                                                         *)
(* Spec        : the main window - cards, layout, configuration, drag      *)
(*               gestures and fetch completions.                           *)
(* SpecDrag    : the main window under drag gestures only.                 *)
(* SpecFetch   : the main window under refreshes and fetch completions.    *)
(* SpecRun     : one RcloneWorker.run over every outcome of the command.   *)
(* SpecReorder : MainWindow.reorder_cards over every card list.            *)
(* SpecLoad    : MainWindow._load_drives over bounded configuration files. *)
(* SpecParse   : RcloneWorker._parse_about_output over bounded outputs.    *)
(* SpecStore   : two ConfigManager objects (config.py) on one file.        *)
(* SpecSave    : one ConfigManager whose saves can fail.                   *)
(* SpecPrepare : ConfigManager._prepare_for_toml over nested data.         *)
(* SpecEdit    : the title editor of the cards: enter, save, cancel.       *)
(* SpecDialog  : SetupDialog with manually added remote names.             *)
(* SpecEditDrag: edit mode together with drag gestures.                    *)
(* SpecPreview : fetch completions during drag gestures, two cards.        *)
(* SpecRefresh : fetch completions in a window loaded from a file.         *)
(* SpecLayout  : the layout under _add_drive_card, _remove_card and        *)
(*               reorder_cards.                                            *)
(***************************************************************************)
EXTENDS Integers, Sequences, FiniteSets, TLC

(* ------------------------------ bounds --------------------------------- *)

\* number of remotes known to rclone (and so the most cards on screen)
MaxCards == 4

\* most rows checked when the setup dialog is accepted
MaxSelected == 2

\* most fetch workers started in one run of the application
MaxWorkers == 2

\* most entries of the "drives" list of a configuration file read at startup (SpecLoad)
MaxEntries == 2

\* most entries of the "drive_order" list of such a file (SpecLoad)
MaxOrderLen == 3

\* the command runs for 0 .. RunTimeout + MaxOverrun time units (SpecRun)
MaxOverrun == 2

\* most lines of an output handed to _parse_about_output (SpecParse)
MaxLines == 2

\* most rows added to the setup dialog by hand (SpecDialog)
MaxAdded == 2

(* --------------------------- program constants ------------------------- *)

\* subprocess.run(..., timeout=30)
RunTimeout == 30

\* python's None, as it appears in a str | None field
None == "<None>"

\* python's None where the other values are records
NoneRec == [tag |-> "None"]

\* the stretch item that _setup_ui puts in the cards layout
Stretch == "<stretch>"

(* ------------------------------ remotes -------------------------------- *)

RemoteNames == <<"a-gdrive", "b-onedrive", "c-dropbox", "d-drive", "e-proton">>

Remotes == {RemoteNames[i] : i \in 1..MaxCards}

\* rclone listremotes, in the order rclone prints them
AvailableRemotes == [i \in 1..MaxCards |-> RemoteNames[i]]

\* SetupDialog._guess_display_name on the remotes above
guess_display_name(remote_name) ==
    CASE remote_name = "a-gdrive"   -> "A"
      [] remote_name = "b-onedrive" -> "B"
      [] remote_name = "c-dropbox"  -> "C Dropbox"
      [] remote_name = "d-drive"    -> "D"
      [] OTHER                      -> "E Proton"

\* SetupDialog._guess_drive_type on the remotes above
guess_drive_type(remote_name) ==
    CASE remote_name = "a-gdrive"   -> "googledrive"
      [] remote_name = "b-onedrive" -> "onedrive"
      [] remote_name = "c-dropbox"  -> "dropbox"
      [] OTHER                      -> "unknown"

\* models.DriveConfig
DriveConfig(remote_name, display_name, drive_type, enabled) ==
    [remote_name |-> remote_name, display_name |-> display_name,
     drive_type |-> drive_type, enabled |-> enabled]

\* the DriveConfig SetupDialog._accept creates for a new remote
NewDriveConfig(remote_name) ==
    DriveConfig(remote_name, guess_display_name(remote_name),
                guess_drive_type(remote_name), TRUE)

(* --------------------------- sequence helpers -------------------------- *)

Range(s) == {s[i] : i \in DOMAIN s}

\* list.index / QLayout.indexOf, 0-based, -1 when absent
IndexOf(s, x) ==
    IF x \in Range(s) THEN (CHOOSE i \in DOMAIN s : s[i] = x /\ \A j \in 1..(i-1) : s[j] # x) - 1
    ELSE -1

\* QLayout.removeWidget
RemoveWidget(layout, w) == SelectSeq(layout, LAMBDA x : x # w)

\* QBoxLayout.insertWidget(index, w): 0-based, a negative or too large index appends
InsertWidget(layout, index, w) ==
    IF index < 0 \/ index > Len(layout) THEN Append(layout, w)
    ELSE SubSeq(layout, 1, index) \o <<w>> \o SubSeq(layout, index + 1, Len(layout))

\* the sequence s without its elements outside S
Restrict(s, S) == SelectSeq(s, LAMBDA x : x \in S)

\* s without the repeated occurrences of an element (first occurrence kept)
RECURSIVE Dedup(_)
Dedup(s) ==
    IF s = <<>> THEN <<>>
    ELSE LET r == Dedup(SubSeq(s, 1, Len(s) - 1))
             x == s[Len(s)]
         IN IF x \in Range(r) THEN r ELSE Append(r, x)


(* ------------------------------- state --------------------------------- *)

VARIABLES
    config,        \* ConfigManager.config: the keys "drives" and "drive_order"
    drive_cards,   \* MainWindow.drive_cards: its keys, in insertion order
    card,          \* the DriveCard object held under each key (NoCard when none)
    cards_layout,  \* MainWindow.cards_layout: card keys and the stretch item
    workers,       \* MainWindow.workers: the fetch workers started, in start order
    drag,          \* the QDrag being executed by DriveCard.mouseMoveEvent, or NoDrag
    io,            \* the ConfigManager calls made by the handler that ran last
    raised,        \* the exception the handler that ran last ended with, or None
    last,          \* the handler that ran last, its arguments and the layout before it
    run,           \* one RcloneWorker.run: the command's outcome and the signals emitted
    store,         \* a configuration file and the ConfigManager objects made on its path
    dialog         \* the SetupDialog on screen: its rows, entry field and message box

vars == <<config, drive_cards, card, cards_layout, workers, drag, io, raised, last, run, store,
          dialog>>

(* ------------------------------ DriveStatus ---------------------------- *)

StatusFields == {"total", "used", "free", "trash", "other", "objects"}

\* models.DriveStatus
DriveStatus(remote_name, values, last_updated, error) ==
    [remote_name |-> remote_name,
     total |-> values["total"], used |-> values["used"], free |-> values["free"],
     trash |-> values["trash"], other |-> values["other"], objects |-> values["objects"],
     last_updated |-> last_updated, error |-> error]

\* the field defaults of models.DriveStatus
DefaultValues == [f \in StatusFields |-> <<"U", "n", "k", "n", "o", "w", "n">>]

\* datetime.now().strftime(...): the clock is not modelled, every reading is "now"
Now == "now"

(* ------------------------------- DriveCard ----------------------------- *)

NoCard == [tag |-> "NoCard"]

NoDrag == [tag |-> "NoDrag"]

\* no SetupDialog on screen
NoDialog == [tag |-> "NoDialog"]

\* QTextEdit.setPlainText(name): the text of the title editor is a sequence of
\* pieces, each a whitespace character or a run of other characters
PlainText(name) == IF name = "" THEN <<>> ELSE <<name>>

\* the str of such a text
RECURSIVE Str_of(_)
Str_of(text) == IF text = <<>> THEN "" ELSE Head(text) \o Str_of(Tail(text))

\* DriveCard.__init__
NewCard(drive_config) ==
    [drive_config |-> drive_config,
     drive_status |-> NoneRec,
     is_updating |-> FALSE,
     original_content_state |-> NoneRec,
     preview_target_card |-> None,
     content_hidden |-> FALSE,
     stylesheet |-> "original",
     is_edit_mode |-> FALSE,
     title_edit |-> PlainText(drive_config.display_name)]

\* DriveCard._store_content_state (the label texts and the icon are not modelled)
store_content_state(c) ==
    [display_name |-> c.drive_config.display_name,
     remote_name |-> c.drive_config.remote_name,
     drive_status |-> c.drive_status,
     is_updating |-> c.is_updating]

\* DriveCard.set_updating
set_updating(c, is_updating) == [c EXCEPT !.is_updating = is_updating]

\* DriveCard.update_status
update_status(c, status) == [c EXCEPT !.drive_status = status, !.is_updating = FALSE]

\* DriveCard._copy_content_from: self takes the content of source_card
copy_content_from(self, source_card) ==
    LET stored == IF self.original_content_state = NoneRec
                  THEN [self EXCEPT !.original_content_state = store_content_state(self)]
                  ELSE self
    IN [stored EXCEPT !.drive_config.display_name = source_card.drive_config.display_name,
                      !.drive_config.remote_name = source_card.drive_config.remote_name,
                      !.drive_status = source_card.drive_status,
                      !.is_updating = source_card.is_updating]

\* DriveCard._restore_content_state
restore_content_state(self) ==
    IF self.original_content_state = NoneRec THEN self
    ELSE LET state == self.original_content_state
         IN [self EXCEPT !.drive_config.display_name = state.display_name,
                         !.drive_config.remote_name = state.remote_name,
                         !.drive_status = state.drive_status,
                         !.is_updating = state.is_updating,
                         !.original_content_state = NoneRec,
                         !.preview_target_card = None]

\* dragLeaveEvent / dropEvent: "Restore original appearance"
restore_appearance(self) == [self EXCEPT !.content_hidden = FALSE, !.stylesheet = "original"]

\* parent.drive_cards.get(dragged_remote): the key of the card found, or None
get_card(keys, dragged_remote) ==
    IF dragged_remote \in Range(keys) THEN dragged_remote ELSE None

\* the tail of dragLeaveEvent and dropEvent: the dragged card, when it previews
\* the card `self`, gets its own content back
restore_dragged(cs, keys, self, dragged_remote) ==
    LET dragged_card == get_card(keys, dragged_remote)
    IN IF dragged_card # None /\ cs[dragged_card].preview_target_card = self
       THEN [cs EXCEPT ![dragged_card] = restore_content_state(cs[dragged_card])]
       ELSE cs

\* DriveCard.dragEnterEvent on the card `self`; the result is the cards after it.
\* The event is accepted exactly when DragAccepts holds.
DragAccepts(cs, self, text) == text # cs[self].drive_config.remote_name

dragEnterEvent(cs, keys, self, text) ==
    LET dragged_card == get_card(keys, text)
        stored == IF dragged_card # None /\ cs[dragged_card].original_content_state = NoneRec
                  THEN [cs EXCEPT ![dragged_card].original_content_state =
                                       store_content_state(cs[dragged_card]),
                                  ![dragged_card].preview_target_card = self]
                  ELSE cs
        copied == IF dragged_card # None
                  THEN [stored EXCEPT ![dragged_card] =
                                       copy_content_from(stored[dragged_card], stored[self])]
                  ELSE stored
        entered == IF DragAccepts(cs, self, text)
                   THEN [copied EXCEPT ![self].content_hidden = TRUE]
                   ELSE cs
    IN \* the setStyleSheet call is outside the `if` (card.py line 1167)
       [entered EXCEPT ![self].stylesheet = "dropzone"]

\* DriveCard.dragLeaveEvent on the card `self`. QDragLeaveEvent is the one drag
\* event that carries no mime data: has_mime = FALSE is the handler ending at
\* line 1210 with AttributeError, once the appearance has been restored.
dragLeaveEvent(cs, keys, self, text, has_mime) ==
    LET shown == [cs EXCEPT ![self] = restore_appearance(cs[self])]
    IN IF has_mime THEN restore_dragged(shown, keys, self, text) ELSE shown

(* ------------------------------ RcloneWorker --------------------------- *)

\* a text is a sequence of characters
Unknown == <<"U", "n", "k", "n", "o", "w", "n">>

Whitespace == {" ", "\t", "\n"}

\* str.lower, on the letters the sample outputs use
Lower(ch) ==
    CASE ch = "T" -> "t" [] ch = "O" -> "o" [] ch = "A" -> "a" [] ch = "L" -> "l"
      [] ch = "U" -> "u" [] ch = "S" -> "s" [] ch = "E" -> "e" [] ch = "D" -> "d"
      [] ch = "F" -> "f" [] ch = "R" -> "r" [] ch = "H" -> "h" [] ch = "B" -> "b"
      [] ch = "J" -> "j" [] ch = "C" -> "c" [] ch = "G" -> "g" [] ch = "X" -> "x"
      [] OTHER -> ch

lower(text) == [i \in DOMAIN text |-> Lower(text[i])]

\* str.strip
RECURSIVE lstrip(_)
lstrip(text) ==
    IF text # <<>> /\ Head(text) \in Whitespace THEN lstrip(Tail(text)) ELSE text

RECURSIVE rstrip(_)
rstrip(text) ==
    IF text # <<>> /\ text[Len(text)] \in Whitespace
    THEN rstrip(SubSeq(text, 1, Len(text) - 1)) ELSE text

strip(text) == rstrip(lstrip(text))

\* `sub in text`
Contains(text, sub) ==
    \E i \in 0..(Len(text) - Len(sub)) : SubSeq(text, i + 1, i + Len(sub)) = sub

\* text.split(sep): the pieces between the occurrences of the character sep
RECURSIVE split(_, _)
split(text, sep) ==
    IF sep \notin Range(text) THEN <<text>>
    ELSE LET i == CHOOSE k \in DOMAIN text : text[k] = sep /\ \A j \in 1..(k-1) : text[j] # sep
         IN <<SubSeq(text, 1, i - 1)>> \o split(SubSeq(text, i + 1, Len(text)), sep)

\* the value taken after the last colon of the line (rsplit)
value_of_after_last_colon(line) ==
    IF ":" \in Range(line)
    THEN LET i == CHOOSE k \in DOMAIN line : line[k] = ":" /\ \A j \in (k+1)..Len(line) : line[j] # ":"
         IN strip(SubSeq(line, i + 1, Len(line)))
    ELSE Unknown

\* line.split(":", 1)[1].strip() if ":" in line else "Unknown"
value_of(line) ==
    IF ":" \in Range(line)
    THEN LET i == CHOOSE k \in DOMAIN line : line[k] = ":" /\ \A j \in 1..(k-1) : line[j] # ":"
         IN strip(SubSeq(line, i + 1, Len(line)))
    ELSE Unknown

\* the if / elif chain without line.lower(): labels are matched as written
label_of_case_sensitive(line) ==
    LET line_lower == strip(line)
    IN CASE Contains(line_lower, <<"t", "o", "t", "a", "l", ":">>)           -> "total"
         [] Contains(line_lower, <<"u", "s", "e", "d", ":">>)                -> "used"
         [] Contains(line_lower, <<"f", "r", "e", "e", ":">>)                -> "free"
         [] Contains(line_lower, <<"t", "r", "a", "s", "h", ":">>)           -> "trash"
         [] Contains(line_lower, <<"o", "t", "h", "e", "r", ":">>)           -> "other"
         [] Contains(line_lower, <<"o", "b", "j", "e", "c", "t", "s", ":">>) -> "objects"
         [] OTHER -> None

\* the if / elif chain of _parse_about_output: the field a line sets, or None
label_of(line) ==
    LET line_lower == strip(lower(line))
    IN CASE Contains(line_lower, <<"t", "o", "t", "a", "l", ":">>)           -> "total"
         [] Contains(line_lower, <<"u", "s", "e", "d", ":">>)                -> "used"
         [] Contains(line_lower, <<"f", "r", "e", "e", ":">>)                -> "free"
         [] Contains(line_lower, <<"t", "r", "a", "s", "h", ":">>)           -> "trash"
         [] Contains(line_lower, <<"o", "t", "h", "e", "r", ":">>)           -> "other"
         [] Contains(line_lower, <<"o", "b", "j", "e", "c", "t", "s", ":">>) -> "objects"
         [] OTHER -> None

RECURSIVE parse_lines(_, _)
parse_lines(lines, result) ==
    IF lines = <<>> THEN result
    ELSE LET line == Head(lines)
             label == label_of(line)
         IN parse_lines(Tail(lines),
                        IF label = None THEN result
                        ELSE [result EXCEPT ![label] = value_of(line)])

\* RcloneWorker._parse_about_output (the "raw" key, never read, is left out)
parse_about_output(output) ==
    parse_lines(split(output, "\n"), [f \in StatusFields |-> Unknown])

\* what subprocess.run did: returned a completed process, or raised
Exited(returncode, stdout, stderr, duration) ==
    [kind |-> "exit", returncode |-> returncode, stdout |-> stdout, stderr |-> stderr,
     duration |-> duration, text |-> ""]

Failed(text) ==
    [kind |-> "exception", returncode |-> 0, stdout |-> <<>>, stderr |-> "",
     duration |-> 0, text |-> text]

\* subprocess.run(self.command, ..., timeout=30) raises TimeoutExpired when the
\* command is still running after the timeout
TimedOut(outcome) == outcome.kind = "exit" /\ outcome.duration > RunTimeout

finished(remote_name, result) ==
    [signal |-> "finished", remote_name |-> remote_name, result |-> result, error |-> None]

error(remote_name, message) ==
    [signal |-> "error", remote_name |-> remote_name, result |-> NoneRec, error |-> message]

\* run without its "else": the error signal follows every completed command
Run_error_after_finished(remote_name, outcome) ==
    IF outcome.kind = "exception" THEN <<error(remote_name, outcome.text)>>
    ELSE IF TimedOut(outcome) THEN <<error(remote_name, "Command timed out")>>
    ELSE LET failure == error(remote_name, IF outcome.stderr # "" THEN outcome.stderr
                                           ELSE "Unknown error")
         IN IF outcome.returncode = 0
            THEN <<finished(remote_name, parse_about_output(outcome.stdout)), failure>>
            ELSE <<failure>>

\* run without the "or": an empty stderr is emitted as it is
Run_bare_stderr(remote_name, outcome) ==
    IF outcome.kind = "exception" THEN <<error(remote_name, outcome.text)>>
    ELSE IF TimedOut(outcome) THEN <<error(remote_name, "Command timed out")>>
    ELSE IF outcome.returncode = 0
         THEN <<finished(remote_name, parse_about_output(outcome.stdout))>>
         ELSE <<error(remote_name, outcome.stderr)>>

\* RcloneWorker.run: the signals it emits, in order
Run(remote_name, outcome) ==
    IF outcome.kind = "exception" THEN <<error(remote_name, outcome.text)>>
    ELSE IF TimedOut(outcome) THEN <<error(remote_name, "Command timed out")>>
    ELSE IF outcome.returncode = 0
         THEN <<finished(remote_name, parse_about_output(outcome.stdout))>>
         ELSE <<error(remote_name, IF outcome.stderr # "" THEN outcome.stderr
                                   ELSE "Unknown error")>>

(* ------------------------------ ConfigManager -------------------------- *)

\* ConfigManager._default_config (the keys the card list uses)
default_config == [drives |-> <<>>, drive_order |-> <<>>]

\* ConfigManager.set_drives: the new config, and the calls a handler logs for it
set_drives(cfg, drives) == [cfg EXCEPT !.drives = drives]

set_drives_io == <<"set_drives", "save_config">>

\* ConfigManager.set_drive_order
set_drive_order(cfg, order) == [cfg EXCEPT !.drive_order = order]

set_drive_order_io == <<"set_drive_order", "save_config">>

(* --------------------- ConfigManager and its file ----------------------- *)

\* python values as a TOML document holds them, and None
Bool(b) == [tag |-> "bool", v |-> b]

Num(n) == [tag |-> "int", v |-> n]

Str(text) == [tag |-> "str", v |-> text]

\* a dict: entries is a function from its keys to its values
Table(entries) == [tag |-> "dict", entries |-> entries]

\* a list: elems is the sequence of its items
List(elems) == [tag |-> "list", elems |-> elems]

EmptyDict == <<>>

\* dict.get(key, default)
Get(entries, key, default) == IF key \in DOMAIN entries THEN entries[key] ELSE default

\* the dict with entries[key] = value
Put(entries, key, value) ==
    [k \in DOMAIN entries \cup {key} |-> IF k = key THEN value ELSE entries[k]]

\* ConfigManager._default_config, every key
default_config_dict ==
    [k \in {"drives", "window_geometry", "stay_on_top", "auto_refresh_interval",
            "drive_order", "run_at_startup"} |->
        CASE k = "drives" -> List(<<>>)
          [] k = "window_geometry" -> Table(EmptyDict)
          [] k = "stay_on_top" -> Bool(FALSE)
          [] k = "auto_refresh_interval" -> Num(300)
          [] k = "drive_order" -> List(<<>>)
          [] OTHER -> Bool(FALSE)]

\* ConfigManager._prepare_for_toml
RECURSIVE prepare_for_toml(_)
prepare_for_toml(data) ==
    LET prepared(key) == prepare_for_toml(data[key].entries)
        kept == {key \in DOMAIN data :
                    CASE data[key] = NoneRec -> key = "window_geometry"
                      [] data[key].tag = "dict" ->
                             prepared(key) # EmptyDict \/ key = "window_geometry"
                      [] OTHER -> TRUE}
    IN [key \in kept |->
           CASE data[key] = NoneRec -> Table(EmptyDict)
             [] data[key].tag = "dict" -> Table(prepared(key))
             [] data[key].tag = "list" ->
                    List([i \in DOMAIN data[key].elems |->
                            IF data[key].elems[i].tag = "dict"
                            THEN Table(prepare_for_toml(data[key].elems[i].entries))
                            ELSE data[key].elems[i]])
             [] OTHER -> data[key]]

\* what the path holds: no file, a file that tomllib.load rejects, or a document
NoFile == [kind |-> "absent", data |-> EmptyDict]

Unreadable == [kind |-> "unreadable", data |-> EmptyDict]

Toml(data) == [kind |-> "toml", data |-> data]

\* _load_config returning an empty dict, not the defaults, when the file cannot be used
load_config_empty_on_error(file) == IF file.kind = "toml" THEN file.data ELSE EmptyDict

\* ConfigManager._load_config
load_config(file) == IF file.kind = "toml" THEN file.data ELSE default_config_dict

\* what can go wrong in save_config: mkdir raises, open raises, or the dump raises
\* after open has emptied the file, leaving it empty ("write") or cut off ("torn")
Faults == {"none", "mkdir", "open", "write", "torn"}

\* save_config without the try: the exception reaches the setter's caller
save_config_uncaught(cfg, file, fault) ==
    LET toml_data == prepare_for_toml(cfg)
        failed == [file |-> file, io |-> <<>>, raised |-> "Exception"]
    IN IF fault \in {"mkdir", "open"} THEN failed
       ELSE IF fault = "torn" THEN [failed EXCEPT !.file = Unreadable]
       ELSE IF fault = "write" THEN [failed EXCEPT !.file = Toml(EmptyDict)]
       ELSE [file |-> Toml(toml_data), io |-> <<"save_config">>, raised |-> None]

\* ConfigManager.save_config: the file after it, what it printed, what it raised
save_config(cfg, file, fault) ==
    LET toml_data == prepare_for_toml(cfg)
        caught == [file |-> file, io |-> <<"print">>, raised |-> None]
    IN IF fault \in {"mkdir", "open"} THEN caught
       ELSE IF fault = "torn" THEN [caught EXCEPT !.file = Unreadable]
       ELSE IF fault = "write" THEN [caught EXCEPT !.file = Toml(EmptyDict)]
       ELSE [file |-> Toml(toml_data), io |-> <<"save_config">>, raised |-> None]

\* to_dict that leaves the enabled field out
to_dict_without_enabled(d) ==
    Table([k \in {"remote_name", "display_name", "drive_type"} |->
              CASE k = "remote_name" -> Str(d.remote_name)
                [] k = "display_name" -> Str(d.display_name)
                [] OTHER -> Str(d.drive_type)])

\* DriveConfig.to_dict
to_dict(d) ==
    Table([k \in {"remote_name", "display_name", "drive_type", "enabled"} |->
              CASE k = "remote_name" -> Str(d.remote_name)
                [] k = "display_name" -> Str(d.display_name)
                [] k = "drive_type" -> Str(d.drive_type)
                [] OTHER -> Bool(d.enabled)])

\* DriveConfig.from_dict: drive_type and enabled have defaults
from_dict(data) ==
    DriveConfig(data.entries["remote_name"].v, data.entries["display_name"].v,
                Get(data.entries, "drive_type", Str("unknown")).v,
                Get(data.entries, "enabled", Bool(TRUE)).v)

\* ConfigManager.get_drives
get_drives(cfg) ==
    LET drives == Get(cfg, "drives", List(<<>>)).elems
    IN [i \in DOMAIN drives |-> from_dict(drives[i])]

\* ConfigManager.get_drive_order
get_drive_order(cfg) ==
    LET order == Get(cfg, "drive_order", List(<<>>)).elems
    IN [i \in DOMAIN order |-> order[i].v]

\* get_window_geometry without the empty-dict case: returns what is stored
get_window_geometry_as_stored(cfg) == Get(cfg, "window_geometry", NoneRec)

\* ConfigManager.get_window_geometry
get_window_geometry(cfg) ==
    LET geometry == Get(cfg, "window_geometry", NoneRec)
    IN IF geometry # NoneRec /\ geometry.tag = "dict" /\ geometry.entries = EmptyDict
       THEN NoneRec ELSE geometry

\* ConfigManager.get_stay_on_top
get_stay_on_top(cfg) == Get(cfg, "stay_on_top", Bool(FALSE)).v

\* the in-memory config after each setter's assignment
assign_drives(cfg, drives) ==
    Put(cfg, "drives", List([i \in DOMAIN drives |-> to_dict(drives[i])]))

assign_drive_order(cfg, order) ==
    Put(cfg, "drive_order", List([i \in DOMAIN order |-> Str(order[i])]))

assign_window_geometry(cfg, geometry) ==
    Put(cfg, "window_geometry",
        IF geometry # NoneRec /\ geometry.entries # EmptyDict THEN geometry ELSE Table(EmptyDict))

assign_stay_on_top(cfg, value) == Put(cfg, "stay_on_top", Bool(value))

\* no ConfigManager object under a name
NoManager == [tag |-> "NoManager"]

\* the names a program gives its ConfigManager objects
Managers == {"first", "second"}

\* what has been set through the setters, by whom: nothing yet
NotSet == [set |-> FALSE]

WasSet(value) == [set |-> TRUE, v |-> value]

NoStore ==
    [file |-> NoFile,
     managers |-> [m \in Managers |-> NoManager],
     recent |-> [k \in {"drives", "drive_order", "window_geometry", "stay_on_top"} |-> NotSet],
     writers |-> {},
     fresh |-> {},
     fault |-> "none"]

(* ------------------------------ SetupDialog ---------------------------- *)

\* str.rstrip(":")
RECURSIVE rstrip_colons(_)
rstrip_colons(text) ==
    IF text # <<>> /\ text[Len(text)] = ":"
    THEN rstrip_colons(SubSeq(text, 1, Len(text) - 1)) ELSE text

\* SetupDialog._normalize_remote_name
normalize_remote_name(remote_name) ==
    IF remote_name = <<>> THEN remote_name ELSE rstrip_colons(strip(remote_name))

\* how subprocess.run(["rclone", "about", remote], timeout=10) ends
ValidationOutcomes ==
    {[kind |-> "exit", returncode |-> 0], [kind |-> "exit", returncode |-> 1],
     [kind |-> "TimeoutExpired", returncode |-> 0],
     [kind |-> "FileNotFoundError", returncode |-> 0],
     [kind |-> "Exception", returncode |-> 0]}

\* _add_manual that looks at the exceptions only, not at the return code
add_manual_any_exit(dlg, outcome) ==
    LET remote_name == normalize_remote_name(dlg.manual_remote)
        same == {i \in DOMAIN dlg.rows : normalize_remote_name(dlg.rows[i].text) = remote_name}
        message(title) == [dlg EXCEPT !.message = title]
    IN IF remote_name = <<>> THEN dlg
       ELSE IF same # {}
       THEN [dlg EXCEPT !.rows[CHOOSE i \in same : \A j \in same : i <= j].checked = TRUE,
                        !.manual_remote = <<>>]
       ELSE IF outcome.kind = "TimeoutExpired" THEN message("Validation Timeout")
       ELSE IF outcome.kind = "FileNotFoundError" THEN message("rclone Not Found")
       ELSE IF outcome.kind = "Exception" THEN message("Validation Error")
       ELSE [dlg EXCEPT !.rows = Append(@, [text |-> remote_name, checked |-> TRUE]),
                        !.manual_remote = <<>>,
                        !.existing_remotes = @ \cup {remote_name}]

\* SetupDialog._add_manual: the dialog after Add is clicked and, when the name is
\* new, the validation command has ended with `outcome`; message is the title of
\* the message box shown and closed
add_manual(dlg, outcome) ==
    LET remote_name == normalize_remote_name(dlg.manual_remote)
        same == {i \in DOMAIN dlg.rows : normalize_remote_name(dlg.rows[i].text) = remote_name}
        message(title) == [dlg EXCEPT !.message = title]
    IN IF remote_name = <<>> THEN dlg
       ELSE IF same # {}
       THEN [dlg EXCEPT !.rows[CHOOSE i \in same : \A j \in same : i <= j].checked = TRUE,
                        !.manual_remote = <<>>]
       ELSE IF outcome.kind = "TimeoutExpired" THEN message("Validation Timeout")
       ELSE IF outcome.kind = "FileNotFoundError" THEN message("rclone Not Found")
       ELSE IF outcome.kind = "Exception" THEN message("Validation Error")
       ELSE IF outcome.returncode # 0 THEN message("Remote Not Found")
       ELSE [dlg EXCEPT !.rows = Append(@, [text |-> remote_name, checked |-> TRUE]),
                        !.manual_remote = <<>>,
                        !.existing_remotes = @ \cup {remote_name}]

(* -------------------------- DriveCard edit mode ------------------------- *)

\* DriveCard._enter_edit_mode
enter_edit_mode(self) ==
    IF self.is_edit_mode THEN self
    ELSE [self EXCEPT !.is_edit_mode = TRUE,
                      !.title_edit = PlainText(self.drive_config.display_name)]

\* DriveCard._exit_edit_mode
exit_edit_mode(self) == [self EXCEPT !.is_edit_mode = FALSE]

\* _save_edit that tests the text before it is stripped
save_edit_untrimmed_test(self) ==
    LET new_title == Str_of(strip(self.title_edit))
    IN IF Str_of(self.title_edit) = "" THEN [card |-> self, emitted |-> <<>>]
       ELSE [card |-> exit_edit_mode([self EXCEPT !.drive_config.display_name = new_title]),
             emitted |-> <<new_title>>]

\* DriveCard._save_edit: the card after it and the display_name_saved signals emitted
save_edit(self) ==
    LET new_title == Str_of(strip(self.title_edit))
    IN IF new_title = "" THEN [card |-> self, emitted |-> <<>>]
       ELSE [card |-> exit_edit_mode([self EXCEPT !.drive_config.display_name = new_title]),
             emitted |-> <<new_title>>]

\* DriveCard._cancel_edit
cancel_edit(self) ==
    exit_edit_mode([self EXCEPT !.title_edit = PlainText(self.drive_config.display_name)])

(* ------------------------------- MainWindow ---------------------------- *)

\* the keys of a dict built by inserting the keys of s in order
DictKeys(s) == Dedup(s)

\* the order list _save_drive_order builds: every item but the last one that
\* holds a DriveCard gives its card's drive_config.remote_name
layout_order(layout, cs) ==
    LET items == SubSeq(layout, 1, Len(layout) - 1)
        widgets == SelectSeq(items, LAMBDA w : w # Stretch)
    IN [i \in DOMAIN widgets |-> cs[widgets[i]].drive_config.remote_name]

\* MainWindow._save_drive_order
save_drive_order(cfg, layout, cs) == set_drive_order(cfg, layout_order(layout, cs))

\* MainWindow._save_drives
save_drives(cfg, keys, layout, cs) ==
    save_drive_order(set_drives(cfg, [i \in DOMAIN keys |-> cs[keys[i]].drive_config]),
                     layout, cs)

save_drives_io == set_drives_io \o set_drive_order_io

\* MainWindow._save_card_display_name, the slot of display_name_saved: the first
\* entry with the remote name takes the display name
save_card_display_name(cfg, remote_name, display_name) ==
    LET drives == cfg.drives
        found == {i \in DOMAIN drives : drives[i].remote_name = remote_name}
    IN set_drives(cfg, [i \in DOMAIN drives |->
                          IF i \in found /\ \A j \in found : i <= j
                          THEN [drives[i] EXCEPT !.display_name = display_name]
                          ELSE drives[i]])

\* MainWindow.reorder_cards gets past its early returns
reorder_applies(layout, keys, dragged_remote, target_remote) ==
    /\ dragged_remote # target_remote
    /\ dragged_remote \in Range(keys)
    /\ target_remote \in Range(keys)
    /\ IndexOf(layout, dragged_remote) # -1
    /\ IndexOf(layout, target_remote) # -1

\* reorder_cards with "target_index - 1" on the way down
insert_index_before_target(dragged_index, target_index) ==
    IF dragged_index < target_index THEN target_index - 1 ELSE target_index

\* the insert position reorder_cards computes
insert_index(dragged_index, target_index) ==
    IF dragged_index < target_index THEN target_index ELSE target_index

\* MainWindow.reorder_cards: the layout after it
reorder_cards(layout, keys, dragged_remote, target_remote) ==
    IF ~reorder_applies(layout, keys, dragged_remote, target_remote) THEN layout
    ELSE LET dragged_index == IndexOf(layout, dragged_remote)
             target_index == IndexOf(layout, target_remote)
         IN InsertWidget(RemoveWidget(layout, dragged_remote),
                         insert_index(dragged_index, target_index), dragged_remote)

\* _add_drive_card without its first two lines: a second card for the same id
add_drive_card_unguarded(st, drive_config) ==
    [keys |-> IF drive_config.remote_name \in Range(st.keys) THEN st.keys
              ELSE Append(st.keys, drive_config.remote_name),
     card |-> [st.card EXCEPT ![drive_config.remote_name] = NewCard(drive_config)],
     layout |-> InsertWidget(st.layout, Len(st.layout) - 1, drive_config.remote_name)]

\* MainWindow._add_drive_card: the state [keys, card, layout] after it
add_drive_card(st, drive_config) ==
    IF drive_config.remote_name \in Range(st.keys) THEN st
    ELSE [keys |-> Append(st.keys, drive_config.remote_name),
          card |-> [st.card EXCEPT ![drive_config.remote_name] = NewCard(drive_config)],
          layout |-> InsertWidget(st.layout, Len(st.layout) - 1, drive_config.remote_name)]

RECURSIVE add_drive_cards(_, _)
add_drive_cards(st, drive_configs) ==
    IF drive_configs = <<>> THEN st
    ELSE add_drive_cards(add_drive_card(st, Head(drive_configs)), Tail(drive_configs))

\* deleting the card under `key`: the references other cards hold to it dangle
delete_card(cs, key) ==
    [k \in DOMAIN cs |->
        IF k = key THEN NoCard
        ELSE IF cs[k] # NoCard /\ cs[k].preview_target_card = key
             THEN [cs[k] EXCEPT !.preview_target_card = "<deleted>"]
             ELSE cs[k]]

\* the last entry of drives with the given remote name (a dict comprehension)
LastWith(drives, remote_name) ==
    drives[CHOOSE i \in DOMAIN drives :
              /\ drives[i].remote_name = remote_name
              /\ \A j \in (i+1)..Len(drives) : drives[j].remote_name # remote_name]

\* _load_drives with the two loops swapped: the remaining entries come first
ordered_drives_remaining_first(drives, saved_order) ==
    LET enabled == SelectSeq(drives, LAMBDA d : d.enabled)
        names == DictKeys([i \in DOMAIN enabled |-> enabled[i].remote_name])
        in_order == Dedup(Restrict(saved_order, Range(names)))
        remaining == SelectSeq(names, LAMBDA n : n \notin Range(in_order))
        all == remaining \o in_order
    IN [i \in DOMAIN all |-> LastWith(enabled, all[i])]

\* MainWindow._load_drives: ordered_drives, for a non-empty list of entries
ordered_drives(drives, saved_order) ==
    LET enabled == SelectSeq(drives, LAMBDA d : d.enabled)
        names == DictKeys([i \in DOMAIN enabled |-> enabled[i].remote_name])
        in_order == Dedup(Restrict(saved_order, Range(names)))
        remaining == SelectSeq(names, LAMBDA n : n \notin Range(in_order))
        all == in_order \o remaining
    IN [i \in DOMAIN all |-> LastWith(enabled, all[i])]

\* the rows of SetupDialog's list, top to bottom
dialog_rows(available_remotes, existing_drives, drive_order) ==
    LET existing == {existing_drives[i].remote_name : i \in DOMAIN existing_drives}
        names == [i \in DOMAIN existing_drives |-> existing_drives[i].remote_name]
    IN SelectSeq(drive_order, LAMBDA n : n \in existing)
       \o SelectSeq(names, LAMBDA n : n \notin Range(drive_order))
       \o SelectSeq(available_remotes, LAMBDA n : n \notin existing)

\* SetupDialog._accept: selected_drives, for the set of checked row numbers
selected_drives(rows, checked, existing_drives) ==
    LET picked == SelectSeq([i \in DOMAIN rows |-> <<i, rows[i]>>], LAMBDA p : p[1] \in checked)
    IN [i \in DOMAIN picked |->
           IF \E j \in DOMAIN existing_drives : existing_drives[j].remote_name = picked[i][2]
           THEN LastWith(existing_drives, picked[i][2])
           ELSE NewDriveConfig(picked[i][2])]

\* python's truth value of a str | None
Truthy(text) == text # None /\ text # ""

\* _on_drive_update without its first two lines: the lookup of a missing card raises
on_drive_update_unguarded(st, keys, layout, sig) ==
    IF sig.remote_name \notin Range(keys) THEN [st EXCEPT !.raised = "KeyError"]
    ELSE LET stopped == [st.card EXCEPT ![sig.remote_name] = set_updating(@, FALSE)]
         IN IF ~Truthy(sig.error) /\ sig.result = NoneRec
            THEN [st EXCEPT !.card = stopped, !.raised = "AttributeError"]
            ELSE LET status == IF Truthy(sig.error)
                               THEN DriveStatus(sig.remote_name, DefaultValues, "Never", sig.error)
                               ELSE DriveStatus(sig.remote_name, sig.result, Now, None)
                     updated == [stopped EXCEPT ![sig.remote_name] = update_status(@, status)]
                 IN [st EXCEPT !.card = updated,
                               !.config = save_drives(st.config, keys, layout, updated),
                               !.io = st.io \o save_drives_io]

\* MainWindow._on_drive_update on the state st = [card, config, io, raised]
on_drive_update(st, keys, layout, sig) ==
    IF sig.remote_name \notin Range(keys) THEN st
    ELSE LET stopped == [st.card EXCEPT ![sig.remote_name] = set_updating(@, FALSE)]
         IN IF ~Truthy(sig.error) /\ sig.result = NoneRec
            THEN \* result.get on None
                 [st EXCEPT !.card = stopped, !.raised = "AttributeError"]
            ELSE LET status == IF Truthy(sig.error)
                               THEN DriveStatus(sig.remote_name, DefaultValues, "Never", sig.error)
                               ELSE DriveStatus(sig.remote_name, sig.result, Now, None)
                     updated == [stopped EXCEPT ![sig.remote_name] = update_status(@, status)]
                 IN [st EXCEPT !.card = updated,
                               !.config = save_drives(st.config, keys, layout, updated),
                               !.io = st.io \o save_drives_io]

\* the slots connected to a worker's signals run once per signal, in order
RECURSIVE deliver_signals(_, _, _, _)
deliver_signals(st, keys, layout, sigs) ==
    IF sigs = <<>> THEN st
    ELSE deliver_signals(on_drive_update(st, keys, layout, Head(sigs)), keys, layout, Tail(sigs))

\* MainWindow._refresh_drive for the cards under keys, in order: [card, workers] after
RECURSIVE refresh_drives(_, _)
refresh_drives(st, keys) ==
    IF keys = <<>> THEN st
    ELSE LET remote_name == st.card[Head(keys)].drive_config.remote_name
             running == {j \in DOMAIN st.workers :
                            /\ st.workers[j].remote_name = remote_name
                            /\ st.workers[j].state = "running"}
             worker == [remote_name |-> remote_name, state |-> "running",
                        signals |-> <<>>, overlapped |-> running]
         IN refresh_drives(
                IF remote_name = "" THEN st
                ELSE [card |-> [st.card EXCEPT ![Head(keys)] = set_updating(@, TRUE)],
                      workers |-> Append(st.workers, worker)],
                Tail(keys))

(* ---------------------------- sample commands -------------------------- *)

Stdout1 == <<"T", "o", "t", "a", "l", ":", " ", "1", "G", "\n",
             "F", "r", "e", "e", ":", " ", "1", "G", "\n">>

Stdout2 == <<"T", "o", "t", "a", "l", ":", " ", "2", "G", "\n",
             "U", "s", "e", "d", ":", " ", "1", "G">>

\* what `rclone about` can do when the main window fetches a status
FetchOutcomes ==
    {Exited(0, Stdout1, "", 1), Exited(0, Stdout2, "", 1),
     Exited(1, <<>>, "boom", 1), Exited(1, <<>>, "", 1),
     Exited(0, Stdout1, "", RunTimeout + 1),
     Failed("No such file"), Failed("")}

(* -------------------------------- actions ------------------------------ *)

\* the record kept of the handler that ran last: its name, the dragged id and the
\* target (or the remote the handler is about), the layout it found, and data
Handler(op, dragged, target, data) ==
    [op |-> op, dragged |-> dragged, target |-> target, layout |-> cards_layout, data |-> data]

NoRun == [state |-> "idle", remote_name |-> "", outcome |-> Failed(""), emitted |-> <<>>]

Init ==
    /\ config = default_config
    /\ drive_cards = <<>>
    /\ card = [r \in Remotes |-> NoCard]
    /\ cards_layout = <<Stretch>>
    /\ workers = <<>>
    /\ drag = NoDrag
    /\ io = <<>>
    /\ raised = None
    /\ last = [op |-> "__init__", dragged |-> "", target |-> "", layout |-> <<>>, data |-> <<>>]
    /\ run = NoRun
    /\ store = NoStore
    /\ dialog = NoDialog

\* MainWindow.__init__ of a new run of the application: _setup_ui, _load_drives
Startup ==
    /\ drag = NoDrag
    /\ LET empty == [keys |-> <<>>, card |-> [r \in Remotes |-> NoCard], layout |-> <<Stretch>>]
       IN IF config.drives = <<>>
          THEN \* _first_run_setup, the dialog accepted with the rows `checked`
               \E checked \in {c \in SUBSET (1..MaxCards) : Cardinality(c) <= MaxSelected} :
                  LET rows == dialog_rows(AvailableRemotes, <<>>, <<>>)
                      st == add_drive_cards(empty, selected_drives(rows, checked, <<>>))
                  IN /\ drive_cards' = st.keys
                     /\ card' = st.card
                     /\ cards_layout' = st.layout
                     /\ config' = save_drives(config, st.keys, st.layout, st.card)
                     /\ io' = save_drives_io
          ELSE LET st == add_drive_cards(empty, ordered_drives(config.drives, config.drive_order))
               IN /\ drive_cards' = st.keys
                  /\ card' = st.card
                  /\ cards_layout' = st.layout
                  /\ config' = config
                  /\ io' = <<>>
    /\ workers' = <<>>
    /\ raised' = None
    /\ last' = Handler("_load_drives", "", "", <<>>)
    /\ UNCHANGED <<drag, run, store, dialog>>

\* MainWindow._add_drive, the dialog accepted with the rows `checked`
AddDrive ==
    /\ drag = NoDrag
    /\ LET rows == dialog_rows(AvailableRemotes, config.drives, config.drive_order)
       IN \E checked \in {c \in SUBSET (DOMAIN rows) : Cardinality(c) <= MaxSelected} :
          LET selected == selected_drives(rows, checked, config.drives)
              selected_remote_names == {selected[i].remote_name : i \in DOMAIN selected}
              existing_remote_names == Range(drive_cards)
              \* "Remove drives that are not in the selected list"
              kept == [keys |-> Restrict(drive_cards, selected_remote_names),
                       card |-> [k \in Remotes |->
                                   IF k \in Range(drive_cards) /\ k \notin selected_remote_names
                                   THEN NoCard
                                   ELSE IF card[k] # NoCard
                                           /\ card[k].preview_target_card \in Range(drive_cards)
                                           /\ card[k].preview_target_card \notin selected_remote_names
                                        THEN [card[k] EXCEPT !.preview_target_card = "<deleted>"]
                                        ELSE card[k]],
                       layout |-> SelectSeq(cards_layout,
                                            LAMBDA w : w = Stretch \/ w \in selected_remote_names)]
              \* "Update existing cards (they stay in their current positions)"
              updated == [kept EXCEPT !.card =
                            [k \in Remotes |->
                               IF k \in Range(kept.keys)
                               THEN [kept.card[k] EXCEPT !.drive_config = LastWith(selected, k)]
                               ELSE kept.card[k]]]
              \* "Add new drives at the bottom (before the stretch)"
              new_drives == SelectSeq(selected, LAMBDA d : d.remote_name \notin existing_remote_names)
              added == add_drive_cards(updated, new_drives)
              refreshed == refresh_drives([card |-> added.card, workers |-> workers], added.keys)
          IN /\ Len(workers) + Len(added.keys) <= MaxWorkers
             /\ drive_cards' = added.keys
             /\ cards_layout' = added.layout
             /\ card' = refreshed.card
             /\ workers' = refreshed.workers
             /\ config' = save_drive_order(set_drives(config, selected), added.layout, added.card)
             /\ io' = set_drives_io \o set_drive_order_io
    /\ raised' = None
    /\ last' = Handler("_add_drive", "", "", <<>>)
    /\ UNCHANGED <<drag, run, store, dialog>>

\* MainWindow._remove_card, the slot of the card's card_removed signal
RemoveCard(remote_name) ==
    /\ drag = NoDrag
    /\ remote_name \in Range(drive_cards)
    /\ cards_layout' = RemoveWidget(cards_layout, remote_name)
    /\ drive_cards' = RemoveWidget(drive_cards, remote_name)
    /\ card' = delete_card(card, remote_name)
    /\ config' = save_drive_order(
                     set_drives(config, SelectSeq(config.drives,
                                                  LAMBDA d : d.remote_name # remote_name)),
                     cards_layout', card')
    /\ io' = set_drives_io \o <<"save_config">> \o set_drive_order_io
    /\ raised' = None
    /\ last' = Handler("_remove_card", "", remote_name, <<>>)
    /\ UNCHANGED <<workers, drag, run, store, dialog>>

\* MainWindow.refresh_all_drives, from the refresh timer or the refresh button
RefreshAll ==
    /\ drive_cards # <<>>
    /\ Len(workers) + Len(drive_cards) <= MaxWorkers
    /\ LET refreshed == refresh_drives([card |-> card, workers |-> workers], drive_cards)
       IN /\ card' = refreshed.card
          /\ workers' = refreshed.workers
    /\ io' = <<>>
    /\ raised' = None
    /\ last' = Handler("refresh_all_drives", "", "", <<>>)
    /\ UNCHANGED <<config, drive_cards, cards_layout, drag, run, store, dialog>>

\* a worker's command ends with `outcome`; run emits and the slots run
Deliver(i, outcome) ==
    /\ workers[i].state = "running"
    /\ LET sigs == Run(workers[i].remote_name, outcome)
           st == deliver_signals([card |-> card, config |-> config, io |-> <<>>, raised |-> None],
                                 drive_cards, cards_layout, sigs)
       IN /\ card' = st.card
          /\ config' = st.config
          /\ io' = st.io
          /\ raised' = st.raised
          /\ workers' = [workers EXCEPT ![i].state = "done", ![i].signals = sigs]
          /\ last' = Handler("_on_drive_update", "", workers[i].remote_name, sigs)
    /\ UNCHANGED <<drive_cards, cards_layout, drag, run, store, dialog>>

\* DriveCard.mouseMoveEvent up to drag.exec: a drag of the card `source` starts
StartDrag(source) ==
    /\ drag = NoDrag
    /\ source \in Range(drive_cards)
    /\ drag' = [text |-> card[source].drive_config.remote_name, source |-> source,
                over |-> "none", target |-> None]
    /\ io' = <<>>
    /\ raised' = None
    /\ last' = Handler("mouseMoveEvent", "", source, <<>>)
    /\ UNCHANGED <<config, drive_cards, card, cards_layout, workers, run, store, dialog>>

\* the pointer moves over the card `to`, over the container outside every card
\* ("container") or out of the window ("outside"): the widget that had accepted
\* the drag gets dragLeaveEvent, the widget under the pointer dragEnterEvent and,
\* when it does not accept, its parent DropTargetWidget, which accepts any text
PointerMove(to, has_mime) ==
    /\ drag # NoDrag
    /\ to \in Range(drive_cards) \cup {"container", "outside"}
    /\ to # drag.over
    /\ LET leaves == drag.target \in Range(drive_cards)
           left == IF leaves
                   THEN dragLeaveEvent(card, drive_cards, drag.target, drag.text, has_mime)
                   ELSE card
           enters == to \in Range(drive_cards)
           entered == IF enters THEN dragEnterEvent(left, drive_cards, to, drag.text) ELSE left
           target == IF to = "outside" THEN None
                     ELSE IF enters /\ DragAccepts(left, to, drag.text) THEN to
                     ELSE "container"
       IN /\ leaves \/ has_mime   \* has_mime only matters to dragLeaveEvent
          /\ card' = entered
          /\ drag' = [drag EXCEPT !.over = to, !.target = target]
          /\ raised' = IF leaves /\ ~has_mime THEN "AttributeError" ELSE None
          /\ last' = Handler("dragEnterEvent", drag.text, to, <<drag.source>>)
    /\ io' = <<>>
    /\ UNCHANGED <<config, drive_cards, cards_layout, workers, run, store, dialog>>

\* DriveCard.dropEvent on the card that accepted the drag
DropOnCard ==
    /\ drag # NoDrag
    /\ drag.target \in Range(drive_cards)
    /\ LET self == drag.target
           dragged_remote == drag.text
           target_remote == card[self].drive_config.remote_name
           calls == dragged_remote # target_remote
           saves == calls /\ reorder_applies(cards_layout, drive_cards, dragged_remote, target_remote)
           shown == [card EXCEPT ![self] = restore_appearance(@)]
       IN /\ cards_layout' = IF calls
                             THEN reorder_cards(cards_layout, drive_cards, dragged_remote, target_remote)
                             ELSE cards_layout
          \* reorder_cards ends with _save_drive_order, before the preview is undone
          /\ config' = IF saves THEN save_drive_order(config, cards_layout', card) ELSE config
          /\ io' = IF saves THEN set_drive_order_io ELSE <<>>
          /\ card' = restore_dragged(shown, drive_cards, self, dragged_remote)
          /\ last' = Handler("dropEvent", dragged_remote, self, <<drag.source, drag.over>>)
    /\ drag' = NoDrag
    /\ raised' = None
    /\ UNCHANGED <<drive_cards, workers, run, store, dialog>>

\* DropTargetWidget.dropEvent: the container had accepted the drag; the pointer
\* is over the card drag.over, or over no card
DropOnContainer ==
    /\ drag # NoDrag
    /\ drag.target = "container"
    /\ LET dragged_remote == drag.text
           target_card == IF drag.over \in Range(drive_cards) THEN drag.over ELSE None
           target_remote == IF target_card # None
                            THEN card[target_card].drive_config.remote_name ELSE None
           calls == target_card # None /\ dragged_remote # target_remote
           saves == calls /\ reorder_applies(cards_layout, drive_cards, dragged_remote, target_remote)
       IN /\ cards_layout' = IF calls
                             THEN reorder_cards(cards_layout, drive_cards, dragged_remote, target_remote)
                             ELSE cards_layout
          /\ config' = IF saves THEN save_drive_order(config, cards_layout', card) ELSE config
          /\ io' = IF saves THEN set_drive_order_io ELSE <<>>
          /\ last' = Handler("DropTargetWidget.dropEvent", dragged_remote, drag.over, <<drag.source, drag.over>>)
    /\ drag' = NoDrag
    /\ raised' = None
    /\ UNCHANGED <<drive_cards, card, workers, run, store, dialog>>

\* the button is released where no widget has accepted the drag: drag.exec returns
Release ==
    /\ drag # NoDrag
    /\ drag.target = None
    /\ drag' = NoDrag
    /\ io' = <<>>
    /\ raised' = None
    /\ last' = Handler("release", drag.text, drag.over, <<drag.source, drag.over>>)
    /\ UNCHANGED <<config, drive_cards, card, cards_layout, workers, run, store, dialog>>

Next ==
    \/ Startup
    \/ AddDrive
    \/ \E remote_name \in Remotes : RemoveCard(remote_name)
    \/ RefreshAll
    \/ \E i \in DOMAIN workers : \E outcome \in FetchOutcomes : Deliver(i, outcome)
    \/ \E source \in Remotes : StartDrag(source)
    \/ \E to \in Remotes \cup {"container", "outside"} : \E has_mime \in BOOLEAN :
          PointerMove(to, has_mime)
    \/ DropOnCard
    \/ DropOnContainer
    \/ Release

Spec == Init /\ [][Next]_vars

(* ------------------------- RcloneWorker.run alone ---------------------- *)

\* every way subprocess.run can end
RunOutcomes ==
    {Exited(rc, out, err, d) : rc \in {0, 1, 2}, out \in {<<>>, Stdout1, Stdout2},
                               err \in {"", "boom"}, d \in 0..(RunTimeout + MaxOverrun)}
    \cup {Failed(text) : text \in {"", "No such file"}}

\* RcloneWorker.start
RunStart(remote_name, outcome) ==
    /\ run.state # "running"
    /\ run' = [state |-> "running", remote_name |-> remote_name,
               outcome |-> outcome, emitted |-> <<>>]
    /\ UNCHANGED <<config, drive_cards, card, cards_layout, workers, drag, io, raised, last, store, dialog>>

\* RcloneWorker.run returns
RunFinish ==
    /\ run.state = "running"
    /\ run' = [run EXCEPT !.state = "done", !.emitted = Run(run.remote_name, run.outcome)]
    /\ UNCHANGED <<config, drive_cards, card, cards_layout, workers, drag, io, raised, last, store, dialog>>

NextRun ==
    \/ \E remote_name \in Remotes : \E outcome \in RunOutcomes : RunStart(remote_name, outcome)
    \/ RunFinish

SpecRun == Init /\ [][NextRun]_vars


NextDrag ==
    \/ Startup
    \/ \E source \in Remotes : StartDrag(source)
    \/ \E to \in Remotes \cup {"container", "outside"} : \E has_mime \in BOOLEAN :
          PointerMove(to, has_mime)
    \/ DropOnCard
    \/ DropOnContainer
    \/ Release

SpecDrag == Init /\ [][NextDrag]_vars

NextFetch ==
    \/ Startup
    \/ AddDrive
    \/ \E remote_name \in Remotes : RemoveCard(remote_name)
    \/ RefreshAll
    \/ \E i \in DOMAIN workers : \E outcome \in FetchOutcomes : Deliver(i, outcome)

SpecFetch == Init /\ [][NextFetch]_vars

(* ------------------------- editing a card's title ----------------------- *)

\* what the title editor can hold when Save is clicked
TitleTexts ==
    {<<>>, <<" ", "\t">>, <<"\n">>, <<"X">>, <<" ", "New", " ", "Title", "\n">>}

\* the settings button of the card under `key` is clicked
EnterEditMode(key) ==
    /\ drag = NoDrag
    /\ key \in Range(drive_cards)
    /\ card' = [card EXCEPT ![key] = enter_edit_mode(@)]
    /\ io' = <<>>
    /\ raised' = None
    /\ last' = Handler("_enter_edit_mode", "", key, <<>>)
    /\ UNCHANGED <<config, drive_cards, cards_layout, workers, drag, run, store, dialog>>

\* Save is clicked on the card under `key`, its title editor holding `text`:
\* _save_edit, and _save_card_display_name for the signal it emits
SaveEdit(key, text) ==
    /\ drag = NoDrag
    /\ key \in Range(drive_cards)
    /\ card[key].is_edit_mode
    /\ LET saved == save_edit([card[key] EXCEPT !.title_edit = text])
       IN /\ card' = [card EXCEPT ![key] = saved.card]
          /\ config' = IF saved.emitted = <<>> THEN config
                       ELSE save_card_display_name(config, key, saved.emitted[1])
          /\ io' = IF saved.emitted = <<>> THEN <<>> ELSE set_drives_io \o <<"save_config">>
          /\ last' = Handler("_save_edit", "", key, saved.emitted)
    /\ raised' = None
    /\ UNCHANGED <<drive_cards, cards_layout, workers, drag, run, store, dialog>>

\* Cancel is clicked on the card under `key`
CancelEdit(key) ==
    /\ drag = NoDrag
    /\ key \in Range(drive_cards)
    /\ card[key].is_edit_mode
    /\ card' = [card EXCEPT ![key] = cancel_edit(@)]
    /\ io' = <<>>
    /\ raised' = None
    /\ last' = Handler("_cancel_edit", "", key, <<>>)
    /\ UNCHANGED <<config, drive_cards, cards_layout, workers, drag, run, store, dialog>>

NextEdit ==
    \/ Startup
    \/ \E key \in Remotes :
          \/ EnterEditMode(key)
          \/ \E text \in TitleTexts : SaveEdit(key, text)
          \/ CancelEdit(key)

SpecEdit == Init /\ [][NextEdit]_vars

(* ------------------------ edit mode and drags together ------------------ *)

\* mousePressEvent, mouseMoveEvent and dragEnterEvent do not look at is_edit_mode,
\* so a card whose settings button was clicked can still start or receive a drag
NextEditDrag ==
    \/ Startup
    \/ \E key \in Remotes :
          \/ EnterEditMode(key)
          \/ CancelEdit(key)
    \/ \E source \in Remotes : StartDrag(source)
    \/ \E to \in Remotes \cup {"container", "outside"} : \E has_mime \in BOOLEAN :
          PointerMove(to, has_mime)
    \/ DropOnCard
    \/ DropOnContainer
    \/ Release

SpecEditDrag == Init /\ [][NextEditDrag]_vars

(* --------------------- fetch results during a drag ---------------------- *)

\* the main window after a first run whose setup dialog was accepted with the first
\* MaxSelected remotes checked
InitPreview ==
    LET empty == [keys |-> <<>>, card |-> [r \in Remotes |-> NoCard], layout |-> <<Stretch>>]
        rows == dialog_rows(AvailableRemotes, <<>>, <<>>)
        st == add_drive_cards(empty, selected_drives(rows, 1..MaxSelected, <<>>))
    IN /\ drive_cards = st.keys
       /\ card = st.card
       /\ cards_layout = st.layout
       /\ config = save_drives(default_config, st.keys, st.layout, st.card)
       /\ io = save_drives_io
       /\ workers = <<>>
       /\ drag = NoDrag
       /\ raised = None
       /\ last = [op |-> "_load_drives", dragged |-> "", target |-> "",
                  layout |-> <<Stretch>>, data |-> <<>>]
       /\ run = NoRun
       /\ store = NoStore
       /\ dialog = NoDialog

\* a fetch that succeeds and one that fails
PreviewOutcomes == {Exited(0, Stdout1, "", 1), Exited(1, <<>>, "boom", 1)}

\* drag.exec (card.py 983) runs a nested event loop, so the signals of the workers
\* started by refresh_all_drives are delivered while a drag is in progress
NextPreview ==
    \/ RefreshAll
    \/ \E i \in DOMAIN workers : \E outcome \in PreviewOutcomes : Deliver(i, outcome)
    \/ \E source \in Remotes : StartDrag(source)
    \/ \E to \in Remotes \cup {"container", "outside"} : \E has_mime \in BOOLEAN :
          PointerMove(to, has_mime)
    \/ DropOnCard
    \/ DropOnContainer
    \/ Release

SpecPreview == InitPreview /\ [][NextPreview]_vars

(* ------------------------- the setup dialog alone ----------------------- *)

\* what the user types into the "Add manually" field
ManualTexts ==
    {<<>>, <<" ">>, <<":">>, <<"a-gdrive", ":">>, <<" ", "x-new", ":", ":", "\n">>,
     <<"x-new">>, <<"y-new", " ", ":">>}

\* SetupDialog.__init__ / _setup_ui: the rows for the entries and the remotes
OpenDialog ==
    /\ dialog = NoDialog
    /\ drag = NoDrag
    /\ LET rows == dialog_rows(AvailableRemotes, config.drives, config.drive_order)
           existing == {config.drives[i].remote_name : i \in DOMAIN config.drives}
       IN dialog' = [rows |-> [i \in DOMAIN rows |->
                                  [text |-> PlainText(rows[i]), checked |-> rows[i] \in existing]],
                     manual_remote |-> <<>>,
                     message |-> None,
                     existing_remotes |-> {PlainText(r) : r \in existing}]
    /\ io' = <<>>
    /\ raised' = None
    /\ last' = Handler("SetupDialog", "", "", <<>>)
    /\ UNCHANGED <<config, drive_cards, card, cards_layout, workers, drag, run, store>>

\* the check box of row i is clicked
ToggleRow(i) ==
    /\ dialog # NoDialog
    /\ i \in DOMAIN dialog.rows
    /\ dialog' = [dialog EXCEPT !.rows[i].checked = ~@, !.message = None]
    /\ io' = <<>>
    /\ raised' = None
    /\ last' = Handler("setCheckState", "", "", <<>>)
    /\ UNCHANGED <<config, drive_cards, card, cards_layout, workers, drag, run, store>>

\* `text` is typed into the field and Add is clicked: _add_manual (a name that
\* normalizes to one with a trailing blank can be added again and again: the
\* rows are capped)
AddManual(text, outcome) ==
    /\ dialog # NoDialog
    /\ Len(dialog.rows) < MaxCards + MaxAdded
    /\ dialog' = add_manual([dialog EXCEPT !.manual_remote = text, !.message = None], outcome)
    /\ io' = <<>>
    /\ raised' = None
    /\ last' = Handler("_add_manual", "", "", <<text, outcome>>)
    /\ UNCHANGED <<config, drive_cards, card, cards_layout, workers, drag, run, store>>

NextDialog ==
    \/ OpenDialog
    \/ \E i \in 1..(MaxCards + MaxAdded) : ToggleRow(i)
    \/ \E text \in ManualTexts : \E outcome \in ValidationOutcomes : AddManual(text, outcome)

SpecDialog == Init /\ [][NextDialog]_vars

(* ------------------- reorder_cards over every card list ----------------- *)

\* the sequences that hold every element of S once
Perms(S) ==
    {s \in [1..Cardinality(S) -> S] : \A i, j \in DOMAIN s : s[i] = s[j] => i = j}

\* a window showing the cards S in the layout order `shown`, its configuration saved
InitReorder ==
    \E S \in SUBSET Remotes : \E shown \in Perms(S) :
        LET keys == Restrict(AvailableRemotes, S)
        IN /\ drive_cards = keys
           /\ card = [r \in Remotes |-> IF r \in S THEN NewCard(NewDriveConfig(r)) ELSE NoCard]
           /\ cards_layout = Append(shown, Stretch)
           /\ config = [drives |-> [i \in DOMAIN keys |-> NewDriveConfig(keys[i])],
                        drive_order |-> shown]
           /\ workers = <<>>
           /\ drag = NoDrag
           /\ io = <<>>
           /\ raised = None
           /\ last = [op |-> "__init__", dragged |-> "", target |-> "",
                      layout |-> <<>>, data |-> <<>>]
           /\ run = NoRun
           /\ store = NoStore
           /\ dialog = NoDialog

\* MainWindow.reorder_cards(dragged_remote, target_remote), _save_drive_order included
ReorderCards(dragged_remote, target_remote) ==
    LET applies == reorder_applies(cards_layout, drive_cards, dragged_remote, target_remote)
    IN /\ cards_layout' = reorder_cards(cards_layout, drive_cards, dragged_remote, target_remote)
       /\ config' = IF applies THEN save_drive_order(config, cards_layout', card) ELSE config
       /\ io' = IF applies THEN set_drive_order_io ELSE <<>>
       /\ raised' = None
       /\ last' = Handler("reorder_cards", dragged_remote, target_remote, <<>>)
       /\ UNCHANGED <<drive_cards, card, workers, drag, run, store, dialog>>

NextReorder ==
    \E dragged_remote, target_remote \in Remotes : ReorderCards(dragged_remote, target_remote)

SpecReorder == InitReorder /\ [][NextReorder]_vars

(* ------------------- the layout under add, remove, reorder -------------- *)

\* MainWindow._add_drive_card(drive_config) for a remote that may have a card already
AddDriveCard(remote_name) ==
    LET st == add_drive_card([keys |-> drive_cards, card |-> card, layout |-> cards_layout],
                             NewDriveConfig(remote_name))
    IN /\ drive_cards' = st.keys
       /\ card' = st.card
       /\ cards_layout' = st.layout
       /\ io' = <<>>
       /\ raised' = None
       /\ last' = Handler("_add_drive_card", "", remote_name, <<>>)
       /\ UNCHANGED <<config, workers, drag, run, store, dialog>>

NextLayout ==
    \/ \E remote_name \in Remotes : AddDriveCard(remote_name)
    \/ \E remote_name \in Remotes : RemoveCard(remote_name)
    \/ \E dragged_remote, target_remote \in Remotes : ReorderCards(dragged_remote, target_remote)

SpecLayout == InitReorder /\ [][NextLayout]_vars

(* ------------------ _load_drives over configuration files --------------- *)

\* an id a drive_order list may hold that no entry has
Ghost == "z-gone"

\* the sequences over S of length lo .. hi
SeqsOver(S, lo, hi) == UNION {[1..n -> S] : n \in lo..hi}

\* the "drives" lists of a configuration file: ids may repeat, entries may be disabled
DriveLists ==
    SeqsOver({DriveConfig(r, guess_display_name(r), guess_drive_type(r), e) :
                 r \in {RemoteNames[i] : i \in 1..MaxEntries}, e \in BOOLEAN},
             1, MaxEntries)

\* the "drive_order" lists: ids may repeat and may match no entry
OrderLists == SeqsOver({RemoteNames[i] : i \in 1..MaxEntries} \cup {Ghost}, 0, MaxOrderLen)

\* a window just constructed over a configuration file with entries
InitLoad ==
    /\ config \in [drives : DriveLists, drive_order : OrderLists]
    /\ drive_cards = <<>>
    /\ card = [r \in Remotes |-> NoCard]
    /\ cards_layout = <<Stretch>>
    /\ workers = <<>>
    /\ drag = NoDrag
    /\ io = <<>>
    /\ raised = None
    /\ last = [op |-> "__init__", dragged |-> "", target |-> "", layout |-> <<>>, data |-> <<>>]
    /\ run = NoRun
    /\ store = NoStore
    /\ dialog = NoDialog

NextLoad == Startup

SpecLoad == InitLoad /\ [][NextLoad]_vars

(* ------------- fetches in a window loaded from a configuration ---------- *)

\* _load_drives ends with the auto-refresh; every worker's result reaches
\* _on_drive_update, which saves the drives of the cards
NextRefresh ==
    \/ Startup
    \/ RefreshAll
    \/ \E i \in DOMAIN workers : \E outcome \in FetchOutcomes : Deliver(i, outcome)

SpecRefresh == InitLoad /\ [][NextRefresh]_vars

(* ------------------ _parse_about_output over outputs -------------------- *)

\* the six labels as rclone about prints them, in lower case
LabelText(f) ==
    CASE f = "total"   -> <<"t", "o", "t", "a", "l">>
      [] f = "used"    -> <<"u", "s", "e", "d">>
      [] f = "free"    -> <<"f", "r", "e", "e">>
      [] f = "trash"   -> <<"t", "r", "a", "s", "h">>
      [] f = "other"   -> <<"o", "t", "h", "e", "r">>
      [] OTHER         -> <<"o", "b", "j", "e", "c", "t", "s">>

\* the capital of a letter of the labels
Upper(ch) ==
    CASE ch = "t" -> "T" [] ch = "o" -> "O" [] ch = "a" -> "A" [] ch = "l" -> "L"
      [] ch = "u" -> "U" [] ch = "s" -> "S" [] ch = "e" -> "E" [] ch = "d" -> "D"
      [] ch = "f" -> "F" [] ch = "r" -> "R" [] ch = "h" -> "H" [] ch = "b" -> "B"
      [] ch = "j" -> "J" [] ch = "c" -> "C"
      [] OTHER -> ch

LetterCases == {"lower", "Title", "UPPER"}

Cased(text, letter_case) ==
    [i \in DOMAIN text |->
        IF letter_case = "UPPER" \/ (letter_case = "Title" /\ i = 1)
        THEN Upper(text[i]) ELSE text[i]]

\* the sizes the sample lines carry
Sizes == {<<"1", "G">>, <<"2", " ", "G", "B">>}

\* the line "Label: value"
LabelLine(f, letter_case, value) == Cased(LabelText(f), letter_case) \o <<":", " ">> \o value

LabelLines == {LabelLine(f, c, v) : f \in StatusFields, c \in LetterCases, v \in Sizes}

\* "Some text"
JunkLine == <<"S", "o", "m", "e", " ", "t", "e", "x", "t">>

\* "Used: 1G, Total: 2G"
SummaryLine ==
    <<"U", "s", "e", "d", ":", " ", "1", "G", ",", " ", "T", "o", "t", "a", "l", ":", " ", "2", "G">>

\* "Total:   1G: Extra"
ColonLine ==
    <<"T", "o", "t", "a", "l", ":", " ", " ", " ", "1", "G", ":", " ", "E", "x", "t", "r", "a">>

\* "  free:  2 GB  "
PaddedLine ==
    <<" ", " ", "f", "r", "e", "e", ":", " ", " ", "2", " ", "G", "B", " ", " ">>

\* the lines an output is made of
LinePool == LabelLines \cup {JunkLine, SummaryLine, ColonLine, PaddedLine}

\* the output that prints the lines, each ended by a newline
RECURSIVE JoinLines(_)
JoinLines(lines) ==
    IF lines = <<>> THEN <<>> ELSE Head(lines) \o <<"\n">> \o JoinLines(Tail(lines))

\* a worker is started on a command that will print `lines` and exit with code 0
ParseStart(remote_name, lines) ==
    /\ run.state = "idle"
    /\ run' = [state |-> "running", remote_name |-> remote_name,
               outcome |-> Exited(0, JoinLines(lines), "", 1), emitted |-> <<>>]
    /\ last' = Handler("_parse_about_output", "", remote_name, lines)
    /\ UNCHANGED <<config, drive_cards, card, cards_layout, workers, drag, io, raised, store, dialog>>

NextParse ==
    \/ \E lines \in SeqsOver(LinePool, 0, MaxLines) : ParseStart(RemoteNames[1], lines)
    \/ RunFinish

SpecParse == Init /\ [][NextParse]_vars

(* ---------------- ConfigManager objects over one file ------------------- *)

\* the window rectangles closeEvent saves
Rect(x, width) ==
    Table([k \in {"x", "y", "width", "height"} |->
              IF k \in {"x", "y"} THEN Num(x) ELSE Num(width)])

GeometryInputs == {NoneRec, Rect(0, 400), Rect(10, 300)}

\* the lists set_drives is called with
DriveInputs ==
    LET a == DriveConfig(RemoteNames[1], guess_display_name(RemoteNames[1]),
                         guess_drive_type(RemoteNames[1]), TRUE)
        b == DriveConfig(RemoteNames[2], guess_display_name(RemoteNames[2]),
                         guess_drive_type(RemoteNames[2]), FALSE)
    IN {<<>>, <<b, a>>}

\* the lists set_drive_order is called with
OrderInputs == {<<>>, <<RemoteNames[2], RemoteNames[1]>>}

\* no manager yet, over a path with no file or a corrupt file
InitStore ==
    /\ config = default_config
    /\ drive_cards = <<>>
    /\ card = [r \in Remotes |-> NoCard]
    /\ cards_layout = <<Stretch>>
    /\ workers = <<>>
    /\ drag = NoDrag
    /\ io = <<>>
    /\ raised = None
    /\ last = [op |-> "", dragged |-> "", target |-> "", layout |-> <<>>, data |-> <<>>]
    /\ run = NoRun
    /\ store \in {[NoStore EXCEPT !.file = f] : f \in {NoFile, Unreadable}}
    /\ dialog = NoDialog

\* ConfigManager.__init__: m = ConfigManager(config_path)
Construct(m) ==
    /\ store.managers[m] = NoManager
    /\ store' = [store EXCEPT
                   !.managers[m] = [tag |-> "ConfigManager", config |-> load_config(store.file)],
                   !.fresh = @ \cup {m},
                   !.fault = "none"]
    /\ io' = IF store.file.kind = "unreadable" THEN <<"print">> ELSE <<>>
    /\ raised' = None
    /\ last' = Handler("__init__", "", m, <<>>)
    /\ UNCHANGED <<config, drive_cards, card, cards_layout, workers, drag, run, dialog>>

\* a setter of m: the assignment to self.config[key], then save_config
Setter(m, op, key, value, assigned, fault) ==
    /\ store.managers[m] # NoManager
    /\ LET saved == save_config(assigned, store.file, fault)
       IN /\ store' = [store EXCEPT
                         !.file = saved.file,
                         !.managers[m].config = assigned,
                         !.recent[key] = WasSet(value),
                         !.writers = @ \cup {m},
                         !.fresh = {},
                         !.fault = fault]
          /\ io' = saved.io
          /\ raised' = saved.raised
    /\ last' = Handler(op, "", m, <<>>)
    /\ UNCHANGED <<config, drive_cards, card, cards_layout, workers, drag, run, dialog>>

\* ConfigManager.set_drives
SetDrives(m, drives, fault) ==
    /\ store.managers[m] # NoManager
    /\ Setter(m, "set_drives", "drives", drives,
              assign_drives(store.managers[m].config, drives), fault)

\* ConfigManager.set_drive_order
SetDriveOrder(m, order, fault) ==
    /\ store.managers[m] # NoManager
    /\ Setter(m, "set_drive_order", "drive_order", order,
              assign_drive_order(store.managers[m].config, order), fault)

\* ConfigManager.set_window_geometry
SetWindowGeometry(m, geometry, fault) ==
    /\ store.managers[m] # NoManager
    /\ Setter(m, "set_window_geometry", "window_geometry", geometry,
              assign_window_geometry(store.managers[m].config, geometry), fault)

\* ConfigManager.set_stay_on_top
SetStayOnTop(m, value, fault) ==
    /\ store.managers[m] # NoManager
    /\ Setter(m, "set_stay_on_top", "stay_on_top", value,
              assign_stay_on_top(store.managers[m].config, value), fault)

\* two managers on one path, every save succeeding
NextStore ==
    \E m \in Managers :
        \/ Construct(m)
        \/ \E drives \in DriveInputs : SetDrives(m, drives, "none")
        \/ \E order \in OrderInputs : SetDriveOrder(m, order, "none")
        \/ \E geometry \in GeometryInputs : SetWindowGeometry(m, geometry, "none")
        \/ \E value \in BOOLEAN : SetStayOnTop(m, value, "none")

SpecStore == InitStore /\ [][NextStore]_vars

\* the manager of the running application
AppManager == CHOOSE m \in Managers : TRUE

\* one manager whose saves can fail
NextSave ==
    \/ Construct(AppManager)
    \/ \E fault \in Faults :
        \/ \E drives \in DriveInputs : SetDrives(AppManager, drives, fault)
        \/ \E order \in OrderInputs : SetDriveOrder(AppManager, order, fault)
        \/ \E geometry \in GeometryInputs : SetWindowGeometry(AppManager, geometry, fault)
        \/ \E value \in BOOLEAN : SetStayOnTop(AppManager, value, fault)

SpecSave == InitStore /\ [][NextSave]_vars

(* ------------------- _prepare_for_toml over nested data ------------------ *)

\* the dicts with keys among `keys` and values among `values`
DictsOver(keys, values) == UNION {[K -> values] : K \in SUBSET keys}

\* values that are not containers: a number, None
Leaves == {Num(1), NoneRec}

\* dicts of leaves
InnerDicts == DictsOver({"k", "window_geometry"}, Leaves)

\* dicts that may hold a dict
MiddleDicts == DictsOver({"k"}, Leaves \cup {Table(d) : d \in InnerDicts})

\* lists of at most one item: a leaf, a dict of leaves, a list holding a dict of leaves
ListValues ==
    LET dicts == {Table(d) : d \in DictsOver({"k"}, Leaves)}
        items == Leaves \cup dicts \cup {List(<<d>>) : d \in dicts}
    IN {List(elems) : elems \in SeqsOver(items, 0, 1)}

\* the dicts self.config can be: window_geometry and one other key
ConfigValues ==
    DictsOver({"window_geometry", "t"},
              Leaves \cup {Table(d) : d \in MiddleDicts} \cup ListValues)

\* a manager holding any such dict, nothing saved yet
InitPrepare ==
    /\ config = default_config
    /\ drive_cards = <<>>
    /\ card = [r \in Remotes |-> NoCard]
    /\ cards_layout = <<Stretch>>
    /\ workers = <<>>
    /\ drag = NoDrag
    /\ io = <<>>
    /\ raised = None
    /\ last = [op |-> "", dragged |-> "", target |-> "", layout |-> <<>>, data |-> <<>>]
    /\ run = NoRun
    /\ store \in {[NoStore EXCEPT !.managers[AppManager] =
                                      [tag |-> "ConfigManager", config |-> c]] :
                     c \in ConfigValues}
    /\ dialog = NoDialog

\* toml_data = self._prepare_for_toml(self.config)
PrepareForToml(m) ==
    /\ store.managers[m] # NoManager
    /\ last.op = ""
    /\ last' = Handler("_prepare_for_toml", "", m, prepare_for_toml(store.managers[m].config))
    /\ UNCHANGED <<config, drive_cards, card, cards_layout, workers, drag, io, raised, run, store, dialog>>

NextPrepare == PrepareForToml(AppManager)

SpecPrepare == InitPrepare /\ [][NextPrepare]_vars

(* ================================ claims ================================ *)

\* the cards on screen, top to bottom (the layout without its stretch item)
Shown == SelectSeq(cards_layout, LAMBDA w : w # Stretch)

\* the position of the first x in s
First(s, x) == CHOOSE i \in DOMAIN s : s[i] = x /\ \A j \in 1..(i-1) : s[j] # x

\* C1: when reorder_cards is called with two different ids that both have a card,
\* the dragged card ends at the index the target card had before the call, and
\* the other widgets keep their relative order
C1_DraggedTakesTargetIndex ==
    (/\ last.op = "reorder_cards"
     /\ last.dragged # last.target
     /\ {last.dragged, last.target} \subseteq Range(drive_cards))
    => /\ IndexOf(cards_layout, last.dragged) = IndexOf(last.layout, last.target)
       /\ RemoveWidget(cards_layout, last.dragged) = RemoveWidget(last.layout, last.dragged)

\* [A, B, C, D], A dragged onto C: [B, C, A, D]
C1_Witness ==
    /\ last.op = "reorder_cards"
    /\ last.dragged = "a-gdrive"
    /\ last.target = "c-dropbox"
    /\ last.layout = <<"a-gdrive", "b-onedrive", "c-dropbox", "d-drive", Stretch>>
    /\ cards_layout = <<"b-onedrive", "c-dropbox", "a-gdrive", "d-drive", Stretch>>

\* C5: _load_drives over a file with entries shows one card for each enabled
\* entry and none else; the cards named in the saved order come first, in the
\* order of their first mention there (ids without an enabled entry and repeated
\* ids count for nothing), then the other enabled entries in entries order
C5_LoadOrder ==
    last.op = "_load_drives" =>
        LET enabled == SelectSeq(config.drives, LAMBDA d : d.enabled)
            names == [i \in DOMAIN enabled |-> enabled[i].remote_name]
            saved == config.drive_order
        IN /\ cards_layout = Shown \o <<Stretch>>
           /\ \A i \in DOMAIN enabled :
                 Cardinality({k \in DOMAIN Shown : Shown[k] = enabled[i].remote_name}) = 1
           /\ Range(Shown) \subseteq Range(names)
           /\ Range(drive_cards) = Range(Shown)
           /\ \A x \in Range(Shown) :
                 /\ card[x] # NoCard
                 /\ \E i \in DOMAIN enabled : card[x].drive_config = enabled[i]
                 /\ card[x].drive_config.remote_name = x
           /\ \A i, j \in DOMAIN Shown :
                 i < j =>
                    IF Shown[i] \in Range(saved)
                    THEN Shown[j] \in Range(saved)
                            => First(saved, Shown[i]) < First(saved, Shown[j])
                    ELSE /\ Shown[j] \notin Range(saved)
                         /\ First(names, Shown[i]) < First(names, Shown[j])

\* entries [a, b], saved order [b, gone, b]: the cards are b, a
C5_Witness ==
    /\ last.op = "_load_drives"
    /\ Len(config.drives) = 2
    /\ config.drives[1].remote_name = "a-gdrive" /\ config.drives[1].enabled
    /\ config.drives[2].remote_name = "b-onedrive" /\ config.drives[2].enabled
    /\ config.drive_order = <<"b-onedrive", Ghost, "b-onedrive">>
    /\ cards_layout = <<"b-onedrive", "a-gdrive", Stretch>>

\* a drop handler ran last
Dropped == last.op \in {"dropEvent", "DropTargetWidget.dropEvent"}

\* C2: after card S, dragged over another card C, is dropped on C, S stands where
\* C stood and the saved drive_order is the cards' own remote ids in the new
\* top-to-bottom order, each id once
C2_DropSavesOwnIdsInNewOrder ==
    (/\ last.op = "dropEvent"
     /\ last.data[1] = last.dragged
     /\ last.target # last.dragged)
    => /\ IndexOf(cards_layout, last.dragged) = IndexOf(last.layout, last.target)
       /\ config.drive_order = Shown
       /\ \A i, j \in DOMAIN config.drive_order :
             config.drive_order[i] = config.drive_order[j] => i = j

\* the button is released over the dragged card itself, or where no card lies
NoOpDrop ==
    /\ drag # NoDrag
    /\ drag' = NoDrag
    /\ drag.over = drag.source \/ drag.over \notin Range(drive_cards)

\* C3: a drop of a card onto itself, or where no card lies under the pointer,
\* leaves the card sequence and the saved drive_order as they were and makes no
\* persistence call
C3_NoOpDropChangesNothing ==
    [][NoOpDrop => /\ cards_layout' = cards_layout
                   /\ config' = config
                   /\ io' = <<>>]_vars

\* C4: after a startup load, an accepted add-drive dialog, a card removal and a
\* committed reorder, the saved drive_order is the remote ids of the cards on
\* screen, top to bottom
C4_SavedOrderIsScreenOrder ==
    (\/ last.op \in {"_load_drives", "_add_drive", "_remove_card"}
     \/ Dropped /\ cards_layout # last.layout)
    => config.drive_order = Shown

\* a fetch result was handled last, for a remote that has no card
AbsentDelivered == last.op = "_on_drive_update" /\ last.target \notin Range(drive_cards)

\* C6: a fetch result for a remote that has no card is discarded: no card, no
\* card list and no saved data changes, nothing is saved and nothing is raised
C6_ResultForAbsentRemoteDiscarded ==
    [][AbsentDelivered' => /\ card' = card
                           /\ drive_cards' = drive_cards
                           /\ cards_layout' = cards_layout
                           /\ config' = config
                           /\ io' = <<>>
                           /\ raised' = None]_vars

\* the card of a running fetch was removed, another card is on screen, and the
\* fetch then succeeded
C6_Witness ==
    /\ AbsentDelivered
    /\ drive_cards # <<>>
    /\ Len(last.data) = 1
    /\ last.data[1].signal = "finished"
    /\ io = <<>>
    /\ raised = None

\* the status a card shows for a signal
StatusOf(sig) ==
    IF sig.signal = "finished" THEN DriveStatus(sig.remote_name, sig.result, Now, None)
    ELSE DriveStatus(sig.remote_name, DefaultValues, "Never", sig.error)

\* the worker is done and its result was one that _on_drive_update handles
\* without raising (the empty error text of C8 set aside)
Handled(w) ==
    /\ w.state = "done"
    /\ w.signals[1].signal = "finished" \/ w.signals[1].error # ""

\* C7: when a card was refreshed again while an earlier fetch for it was running,
\* then once both results are delivered, in either order, the card's status is
\* the result of the fetch started last
C7_LatestStartedFetchWins ==
    \A i, j \in DOMAIN workers :
        (/\ i \in workers[j].overlapped
         /\ Handled(workers[i])
         /\ Handled(workers[j])
         /\ workers[j].remote_name \in Range(drive_cards))
        => card[workers[j].remote_name].drive_status = StatusOf(workers[j].signals[1])

\* C8: every error outcome delivered for a card on screen leaves that card with a
\* status whose error is set and whose other fields are the defaults, and the
\* handling raises nothing
C8_ErrorOutcomeGivesErrorStatus ==
    (/\ last.op = "_on_drive_update"
     /\ last.target \in Range(drive_cards)
     /\ last.data[1].signal = "error")
    => /\ raised = None
       /\ card[last.target].drive_status
             = DriveStatus(last.target, DefaultValues, "Never", last.data[1].error)
       /\ card[last.target].drive_status.error # None

\* the command of a finished run exited with code 0 before the timeout
ExitedZero ==
    /\ run.outcome.kind = "exit"
    /\ run.outcome.duration <= RunTimeout
    /\ run.outcome.returncode = 0

\* C9: every run of the worker emits exactly one signal, for its own remote:
\* finished if and only if the command exited with code 0, error otherwise
C9_ExactlyOneSignal ==
    run.state = "done"
    => /\ Len(run.emitted) = 1
       /\ run.emitted[1].remote_name = run.remote_name
       /\ run.emitted[1].signal = IF ExitedZero THEN "finished" ELSE "error"

\* a command that printed its totals and exited with code 0
C9_Witness ==
    /\ run.state = "done"
    /\ ExitedZero
    /\ run.outcome.stdout = Stdout1
    /\ run.emitted = <<finished(run.remote_name, parse_about_output(Stdout1))>>

\* C10: the text of the error signal is the command's stderr, or "Unknown error"
\* when stderr is empty, after an exit with a code other than 0; it is "Command
\* timed out" when the command ran past the timeout of 30; it is the exception's
\* text otherwise
C10_ErrorText ==
    (run.state = "done" /\ ~ExitedZero)
    => \E k \in DOMAIN run.emitted :
          /\ run.emitted[k].signal = "error"
          /\ run.emitted[k].error =
                IF run.outcome.kind = "exception" THEN run.outcome.text
                ELSE IF run.outcome.duration > RunTimeout THEN "Command timed out"
                ELSE IF run.outcome.stderr = "" THEN "Unknown error"
                ELSE run.outcome.stderr

\* a command that failed without a word on stderr
C10_Witness ==
    /\ run.state = "done"
    /\ run.outcome.kind = "exit"
    /\ run.outcome.returncode = 1
    /\ run.outcome.stderr = ""
    /\ run.outcome.duration = RunTimeout
    /\ run.emitted = <<error(run.remote_name, "Unknown error")>>

\* a worker has parsed the output made of the lines last.data
Parsed == last.op = "_parse_about_output" /\ run.state = "done"

\* the dict _parse_about_output returned
ParseResult == run.emitted[1].result

\* every line is "Label: value" and no label comes twice
LabelValueLines(lines) ==
    /\ \A i \in DOMAIN lines : lines[i] \in LabelLines
    /\ \A i, j \in DOMAIN lines :
          (\E f \in StatusFields : \E c, d \in LetterCases : \E v, w \in Sizes :
              lines[i] = LabelLine(f, c, v) /\ lines[j] = LabelLine(f, d, w)) => i = j

\* C11: for an output whose lines are "Label: value" for a subset of the six
\* labels, in any order and any letter case, the parse gives each label of the
\* subset its value and leaves every other field "Unknown"
C11_SubsetOfLabelsParsed ==
    (Parsed /\ LabelValueLines(last.data))
    => \A f \in StatusFields :
          IF \E i \in DOMAIN last.data : \E c \in LetterCases : \E v \in Sizes :
                last.data[i] = LabelLine(f, c, v)
          THEN \E i \in DOMAIN last.data : \E c \in LetterCases :
                  last.data[i] = LabelLine(f, c, ParseResult[f])
          ELSE ParseResult[f] = Unknown

\* "USED: 1G" then "Total: 2 GB"
C11_Witness ==
    /\ Parsed
    /\ last.data = <<LabelLine("used", "UPPER", <<"1", "G">>),
                     LabelLine("total", "Title", <<"2", " ", "G", "B">>)>>
    /\ ParseResult["used"] = <<"1", "G">>
    /\ ParseResult["total"] = <<"2", " ", "G", "B">>
    /\ ParseResult["free"] = Unknown

\* the line, lower-cased and trimmed, holds the label followed by a colon
Matches(line, f) == Contains(strip(lower(line)), LabelText(f) \o <<":">>)

\* everything after the first colon of the line, trimmed
AfterFirstColon(line) ==
    LET first == CHOOSE k \in DOMAIN line : line[k] = ":" /\ \A j \in 1..(k-1) : line[j] # ":"
    IN strip(SubSeq(line, first + 1, Len(line)))

\* the last line that matches the label, 0 when none does
LastMatch(lines, f) ==
    IF \E i \in DOMAIN lines : Matches(lines[i], f)
    THEN CHOOSE i \in DOMAIN lines :
            Matches(lines[i], f) /\ \A j \in (i+1)..Len(lines) : ~Matches(lines[j], f)
    ELSE 0

\* C12: the six fields are matched independently: each field holds the value of
\* the last line that matches its label, whatever other labels that line or
\* other lines match, and is "Unknown" when no line matches it
C12_FieldsMatchedIndependently ==
    Parsed => \A f \in StatusFields :
                 ParseResult[f] = IF LastMatch(last.data, f) = 0 THEN Unknown
                                  ELSE AfterFirstColon(last.data[LastMatch(last.data, f)])

\* C13: the value stored for a line matched to a label (the last line with the
\* label, holding no other label) is everything after the first colon of the
\* line, trimmed, so a value with colons of its own is kept whole
C13_ValueIsRestAfterFirstColon ==
    Parsed => \A f \in StatusFields :
                 LET i == LastMatch(last.data, f)
                 IN (i # 0 /\ \A g \in StatusFields \ {f} : ~Matches(last.data[i], g))
                    => ParseResult[f] = AfterFirstColon(last.data[i])

\* "Total:   1G: Extra" gives "1G: Extra"
C13_Witness ==
    /\ Parsed
    /\ last.data = <<ColonLine>>
    /\ ParseResult["total"] = <<"1", "G", ":", " ", "E", "x", "t", "r", "a">>

\* C14: a ConfigManager constructed on a path with no file, or with a file that does
\* not parse, holds exactly the default configuration (no drives, no drive order,
\* stay_on_top false, auto_refresh_interval 300, run_at_startup false, no geometry),
\* and the construction raises nothing.
C14_MissingOrCorruptFileGivesDefault ==
    (last.op = "__init__" /\ store.file.kind # "toml") =>
        LET cfg == store.managers[last.target].config
        IN /\ DOMAIN cfg = {"drives", "drive_order", "stay_on_top", "auto_refresh_interval",
                            "run_at_startup", "window_geometry"}
           /\ get_drives(cfg) = <<>>
           /\ get_drive_order(cfg) = <<>>
           /\ get_stay_on_top(cfg) = FALSE
           /\ cfg["auto_refresh_interval"] = Num(300)
           /\ cfg["run_at_startup"] = Bool(FALSE)
           /\ get_window_geometry(cfg) = NoneRec
           /\ raised = None

C14_Witness ==
    /\ last.op = "__init__"
    /\ store.file.kind = "unreadable"
    /\ store.managers[last.target] # NoManager
    /\ io = <<"print">>

\* the getter of each key the setters write
Getter(key, cfg) ==
    CASE key = "drives" -> get_drives(cfg)
      [] key = "drive_order" -> get_drive_order(cfg)
      [] key = "window_geometry" -> get_window_geometry(cfg)
      [] OTHER -> get_stay_on_top(cfg)

SetterKeys == {"drives", "drive_order", "window_geometry", "stay_on_top"}

\* C15: after any sequence of setter calls made through one manager, a manager
\* constructed afterwards on the same file returns from every getter the value most
\* recently set (drives, drive order, a geometry that is not None, stay_on_top).
C15_NewManagerReadsWhatWasSet ==
    \A m \in store.fresh :
        Cardinality(store.writers) = 1 =>
            \A key \in SetterKeys :
                (/\ store.recent[key].set
                 /\ key = "window_geometry" => store.recent[key].v # NoneRec) =>
                    Getter(key, store.managers[m].config) = store.recent[key].v

C15_Witness ==
    /\ Cardinality(store.writers) = 1
    /\ store.fresh # {}
    /\ \A key \in SetterKeys : store.recent[key].set
    /\ store.recent["window_geometry"].v = Rect(10, 300)
    /\ store.recent["stay_on_top"].v
    /\ Len(store.recent["drives"].v) = 2
    /\ Len(store.recent["drive_order"].v) = 2
    /\ store.file.kind = "toml"

\* set_window_geometry(None) was the most recent call of set_window_geometry
NullGeometrySet ==
    /\ store.recent["window_geometry"].set
    /\ store.recent["window_geometry"].v = NoneRec

\* C16: after set_window_geometry(None), get_window_geometry() returns None on the
\* same manager, and on a manager constructed afterwards from the saved file; it
\* never returns an empty dict.
C16_NullGeometryRoundTrips ==
    NullGeometrySet =>
        /\ last.op = "set_window_geometry" =>
               /\ get_window_geometry(store.managers[last.target].config) = NoneRec
               /\ get_window_geometry(load_config(store.file)) = NoneRec
        /\ \A m \in store.fresh :
               Cardinality(store.writers) = 1 =>
                   get_window_geometry(store.managers[m].config) = NoneRec

C16_Witness ==
    /\ NullGeometrySet
    /\ last.op = "__init__"
    /\ last.target \in store.fresh
    /\ Cardinality(store.writers) = 1
    /\ store.file.kind = "toml"
    /\ store.file.data["window_geometry"] = Table(EmptyDict)
    /\ store.managers[last.target].config["window_geometry"] = Table(EmptyDict)

\* the step is a call of a setter other than the one of `key`, on a file that parsed
OtherSetterStep(key) ==
    /\ store.file.kind = "toml"
    /\ store'.file.kind = "toml"
    /\ last'.op \in {"set_" \o k : k \in SetterKeys \ {key}}
    /\ store' # store

\* C17: a setter re-reads the file, changes only its own key and writes the result:
\* with two managers on one file, a setter call by one leaves every other key of the
\* file as the other manager saved it.
C17_SetterPreservesOtherKeys ==
    [][\A key \in SetterKeys :
          OtherSetterStep(key) =>
              Getter(key, load_config(store'.file)) = Getter(key, load_config(store.file))]_vars

\* the step is a setter whose save raised after open(path, "wb"), over a saved file
SaveFailedPartWay ==
    /\ store.file.kind = "toml"
    /\ store'.fault \in {"write", "torn"}
    /\ io' = <<"print">>

\* C18: if a save fails part-way, after the file has been opened for writing, the
\* file still holds the previously saved version, so a later load returns the
\* previous configuration.
C18_FailedSaveKeepsPreviousVersion ==
    [][SaveFailedPartWay =>
          \A key \in SetterKeys :
              Getter(key, load_config(store'.file)) = Getter(key, load_config(store.file))]_vars

\* the last operation was a call of a setter
SetterCalled == last.op \in {"set_" \o key : key \in SetterKeys}

\* C19: save_config never raises: when creating the parent directory, serializing
\* or writing fails, the failure is caught and reported, and the setter that called
\* save_config returns normally, its value assigned.
C19_SaveConfigNeverRaises ==
    SetterCalled =>
        /\ raised = None
        /\ store.fault # "none" => io = <<"print">>
        /\ \A key \in SetterKeys :
               last.op = "set_" \o key =>
                   Getter(key, store.managers[last.target].config) = store.recent[key].v

C19_Witness ==
    /\ SetterCalled
    /\ store.fault = "mkdir"
    /\ store.file.kind = "absent"
    /\ io = <<"print">>
    /\ raised = None

\* no dict inside `value` has a key whose value is None, or a key other than
\* window_geometry whose value is an empty dict, and no list inside it holds an
\* empty dict
RECURSIVE Pruned(_)
Pruned(value) ==
    CASE value.tag = "dict" ->
             \A key \in DOMAIN value.entries :
                 LET v == value.entries[key]
                 IN /\ v.tag # "None"
                    /\ (v.tag = "dict" /\ key # "window_geometry") => v.entries # EmptyDict
                    /\ Pruned(v)
      [] value.tag = "list" ->
             \A i \in DOMAIN value.elems :
                 LET v == value.elems[i]
                 IN /\ v.tag = "dict" => v.entries # EmptyDict
                    /\ Pruned(v)
      [] OTHER -> TRUE

\* C20: the data prepared for writing has, at any nesting depth, no key whose value
\* is None and no empty nested table, except window_geometry, which is emitted
\* whenever the configuration has it, as an empty table when it is None or empty.
C20_PreparedDataIsPruned ==
    last.op = "_prepare_for_toml" =>
        LET cfg == store.managers[last.target].config
        IN /\ Pruned(Table(last.data))
           /\ "window_geometry" \in DOMAIN cfg => "window_geometry" \in DOMAIN last.data
           /\ ("window_geometry" \in DOMAIN cfg
               /\ cfg["window_geometry"] \in {NoneRec, Table(EmptyDict)}) =>
                  last.data["window_geometry"] = Table(EmptyDict)

\* the text without its leading and trailing whitespace, as a str
TrimmedText(text) ==
    LET solid == {i \in DOMAIN text : text[i] \notin Whitespace}
    IN IF solid = {} THEN ""
       ELSE Str_of(SubSeq(text, CHOOSE i \in solid : \A j \in solid : i <= j,
                                CHOOSE i \in solid : \A j \in solid : j <= i))

\* C22: saving an edit whose title is empty or only whitespace changes nothing:
\* display_name_saved is not emitted, the display name stays and the card stays in
\* edit mode; saving any other title sets the display name to the trimmed text,
\* emits display_name_saved once with it and leaves edit mode.
C22_SaveEditBlankOrTrimmed ==
    [][\A key \in Remotes :
          (last'.op = "_save_edit" /\ last'.target = key /\ card[key].is_edit_mode) =>
              LET new_title == TrimmedText(card'[key].title_edit)
              IN IF new_title = ""
                 THEN /\ last'.data = <<>>
                      /\ card'[key].drive_config = card[key].drive_config
                      /\ card'[key].is_edit_mode
                      /\ config' = config
                 ELSE /\ last'.data = <<new_title>>
                      /\ card'[key].drive_config.display_name = new_title
                      /\ ~card'[key].is_edit_mode]_vars

C22_Witness ==
    /\ last.op = "_save_edit"
    /\ last.data = <<"New Title">>
    /\ card[last.target].title_edit = <<" ", "New", " ", "Title", "\n">>
    /\ card[last.target].drive_config.display_name = "New Title"
    /\ ~card[last.target].is_edit_mode
    /\ \E i \in DOMAIN config.drives : config.drives[i].display_name = "New Title"

\* Add was clicked with a name that, normalized, is not empty and not in the list
NewNameEntered ==
    /\ dialog # NoDialog
    /\ last'.op = "_add_manual"
    /\ normalize_remote_name(last'.data[1]) # <<>>
    /\ \A i \in DOMAIN dialog.rows :
          normalize_remote_name(dialog.rows[i].text) # normalize_remote_name(last'.data[1])

\* C21: a manually entered remote name that is not in the list is added, checked,
\* only when the validation command exits with code 0; on a non-zero exit, a
\* timeout, a missing executable or any other exception a message box is shown and
\* the rows and their check states stay as they were.
C21_ManualAddNeedsExitZero ==
    [][NewNameEntered =>
          IF last'.data[2] = [kind |-> "exit", returncode |-> 0]
          THEN dialog'.rows = Append(dialog.rows,
                                     [text |-> normalize_remote_name(last'.data[1]),
                                      checked |-> TRUE])
          ELSE /\ dialog'.rows = dialog.rows
               /\ dialog'.message # None]_vars

C21_Witness ==
    /\ dialog # NoDialog
    /\ last.op = "_add_manual"
    /\ last.data[2].kind = "exit" /\ last.data[2].returncode = 1
    /\ dialog.message = "Remote Not Found"
    /\ dialog.manual_remote = <<" ", "x-new", ":", ":", "\n">>
    /\ \E i \in DOMAIN dialog.rows : dialog.rows[i].checked
    /\ \A i \in DOMAIN dialog.rows : dialog.rows[i].text # <<"x-new">>

\* the pointer leaves the card that had accepted the drag for a place outside
\* every card, the drag going on
LeavesTarget ==
    /\ drag # NoDrag
    /\ drag' # NoDrag
    /\ drag.target \in Range(drive_cards)
    /\ drag.text = drag.source
    /\ drag'.over \notin Range(drive_cards)

\* C23: when the pointer leaves target card C without dropping, C shows its own
\* content and its original stylesheet again, and the dragged card, if it was
\* previewing C, has the display name, remote id and status captured before the
\* preview, and neither a stored snapshot nor a preview target.
C23_LeaveRestoresTargetAndDragged ==
    [][LeavesTarget =>
          /\ ~card'[drag.target].content_hidden
          /\ card'[drag.target].stylesheet = "original"
          /\ card[drag.source].preview_target_card = drag.target =>
                LET state == card[drag.source].original_content_state
                    dragged == card'[drag.source]
                IN /\ dragged.drive_config.display_name = state.display_name
                   /\ dragged.drive_config.remote_name = state.remote_name
                   /\ dragged.drive_status = state.drive_status
                   /\ dragged.original_content_state = NoneRec
                   /\ dragged.preview_target_card = None]_vars

\* the card under `key` is Idle: no snapshot, no preview target, its own content
\* shown with the original stylesheet, its own remote id
Idle(c, key) ==
    /\ c.original_content_state = NoneRec
    /\ c.preview_target_card = None
    /\ ~c.content_hidden
    /\ c.stylesheet = "original"
    /\ c.drive_config.remote_name = key

\* C24: after a drag gesture ends as a no-op (dropped on the dragged card itself,
\* dropped on the container outside every card, released outside the window), every
\* card is Idle: no stored snapshot or preview target, no drop-zone appearance, and
\* drive_config.remote_name equal to the card's key in the card map.
C24_NoOpGestureLeavesAllIdle ==
    [][NoOpDrop => \A key \in Range(drive_cards) : Idle(card'[key], key)]_vars

\* a drag carrying the card's own id enters that card
EntersOwnCard ==
    /\ drag # NoDrag
    /\ drag' # NoDrag
    /\ drag.text = drag.source
    /\ drag.over # drag.source
    /\ drag'.over = drag.source

\* C26: a card takes the drop-zone appearance only when the dragged id differs from
\* its own; a drag that enters a card carrying the card's own id leaves the card's
\* appearance and stylesheet unchanged.
C26_OwnIdKeepsAppearance ==
    [][/\ EntersOwnCard =>
            /\ card'[drag.source].stylesheet = card[drag.source].stylesheet
            /\ card'[drag.source].content_hidden = card[drag.source].content_hidden
       /\ \A key \in Range(drive_cards) \cap Range(drive_cards') :
            (card[key].stylesheet # "dropzone" /\ card'[key].stylesheet = "dropzone")
                => (drag # NoDrag /\ drag.text # key)]_vars

\* C25: no card is ever at once in edit mode and the source or the accepted target
\* of a drag in progress.
C25_EditModeExcludesDrag ==
    \A key \in Range(drive_cards) :
        card[key].is_edit_mode => ~(drag # NoDrag /\ (drag.source = key \/ drag.target = key))

\* C27: the persisted drive entries never hold two entries with the same remote id,
\* and always hold an entry for every card of the card map, also when a fetch result
\* is delivered while a card shows a drag preview.
C27_PersistedEntriesMatchCards ==
    /\ \A i, j \in DOMAIN config.drives :
          i # j => config.drives[i].remote_name # config.drives[j].remote_name
    /\ \A key \in Range(drive_cards) :
          \E i \in DOMAIN config.drives : config.drives[i].remote_name = key

\* the last handler delivered a status to the dragged card, which shows a preview
DeliveredWhilePreviewing ==
    /\ drag # NoDrag
    /\ card[drag.source].original_content_state # NoneRec
    /\ last.op = "_on_drive_update"
    /\ last.target = drag.source
    /\ io # <<>>

\* C28: a status delivered to the dragged card while it shows a preview is still the
\* card's status after the preview ends.
C28_DeliveredStatusSurvivesPreview ==
    [][(DeliveredWhilePreviewing /\ card'[drag.source].original_content_state = NoneRec)
          => card'[drag.source].drive_status = card[drag.source].drive_status]_vars

\* C29: the completion of a fetch does not change the set of persisted drive entries;
\* entries with enabled = false, which have no card, stay persisted.
C29_FetchKeepsPersistedEntries ==
    [][last'.op = "_on_drive_update" =>
          {config'.drives[i].remote_name : i \in DOMAIN config'.drives}
              = {config.drives[i].remote_name : i \in DOMAIN config.drives}]_vars

\* the layout holds the cards of the card map, each once, and then the stretch
LayoutIsCardsThenStretch ==
    /\ Len(cards_layout) = Len(drive_cards) + 1
    /\ cards_layout[Len(cards_layout)] = Stretch
    /\ \A i \in 1..(Len(cards_layout) - 1) : cards_layout[i] \in Range(drive_cards)
    /\ \A key \in Range(drive_cards) :
          Cardinality({i \in DOMAIN cards_layout : cards_layout[i] = key}) = 1

\* _add_drive_card is called with an id that has a card
AddsExisting ==
    /\ last'.op = "_add_drive_card"
    /\ last'.target \in Range(drive_cards)

====
